---------------------------- MODULE Spec2Model ----------------------------
(* Call Session Core of ClassPulse: the in-memory call session store        *)
(* (utils/call-session-store.ts), the viewer token service                  *)
(* (utils/viewer-token.ts) and the viewer log websocket endpoint            *)
(* (utils/twilio-integration.ts, /twilio/logs).                             *)
(*                                                                          *)
(* Node runs every handler to completion on one thread, so each exported    *)
(* function, websocket callback and timer callback is one atomic action.    *)
EXTENDS Integers, Sequences, FiniteSets, TLC

(***************************************************************************)
(* Bounds of the model                                                     *)
(***************************************************************************)
\* appends per session are cut off once seq reaches MaxSeq
MaxSeq == 4
\* the store's retention cap; the source sets 5000, the model scales it down
\* so that eviction happens within MaxSeq appends
MAX_LOG_EVENTS == 3
\* the wall clock advances TicksPerSecond times a second and stops after MaxTicks
TicksPerSecond == 2
MaxTicks == 4
\* largest ttl (seconds) handed to createViewerToken
MaxTtl == 2
\* tokens minted in one run of the token service
MaxMinted == 1

(***************************************************************************)
(* Value domains                                                           *)
(***************************************************************************)
Null == "null"
\* S1 is the id createCallSession draws; S2 is an id no session has
SessionIds == {"S1", "S2"}
CreatedIds == {"S1"}
ViewerIds == {"v1", "v2"}
ItemIds == {"i1", "i2"}
Speakers == {"recipient", "assistant"}
TERMINAL_STATUSES == {"completed", "failed"}
StatusInputs == {"ringing", "in-progress", "completed", "failed"}
\* reason?: undefined, the empty string (falsy) or a text
ReasonInputs == {Null, "hangup"}
\* texts are sequences of characters
DeltaInputs == {<<>>, <<"a">>}
FullTextInputs == {<<"F">>}
PreviousItemInputs == {Null, "i1"}
\* audio levels in halves: -1/2, 1/2 and 3/2
LevelUnit == 2
LevelInputs == {-1, 1, 3}
ClockStepMs == 1000 \div TicksPerSecond
MaxNowMs == MaxTicks * ClockStepMs

VARIABLES
  callSessions,   \* Map<sessionId, CallSession>
  sockets,        \* the viewer websockets of /twilio/logs, by viewer
  drainTimers,    \* sessions whose 1000 ms closeSubscribers timer is pending
  debugLog,       \* the distinct lines written through call-debug that the model tracks
  nowMs,          \* Date.now()
  secretEnv,      \* the secret-shaped environment variables
  minted,         \* tokens returned by createViewerToken so far
  lastVerify,     \* the latest verifyViewerToken call and its result
  carrierEnv,     \* the carrier account variables and whether the carrier SDK loads
  callSidToSessionId, \* Map<callSid, sessionId>
  outbound,       \* startTwilioOutboundCall: create-call requests made, awaited, and results
  bridge,         \* the variables bridgeTwilioToRealtime closes over
  twilioSocket,   \* the carrier's media websocket of the bridge
  realtimeSocket, \* the bridge's websocket to the model
  wire,           \* the frames written by the handler that ran last, in order
  pendingMedia,   \* a media socket accepted without a session: its timer and listener
  summaryCache,   \* Map<sessionId, CachedSummary>
  summaryCalls,   \* the getTwilioCallSummaryOutput calls made, in the order they began
  widgetState     \* the CallWidgetState of one viewer

storeVars == <<callSessions, sockets, drainTimers, debugLog>>
tokenVars == <<secretEnv, minted, lastVerify>>
bridgeVars == <<bridge, twilioSocket, realtimeSocket, wire>>
summaryVars == <<summaryCache, summaryCalls>>
edgeVars == <<pendingMedia, summaryVars, widgetState>>
callVars == <<carrierEnv, edgeVars, callSidToSessionId, outbound, bridgeVars>>
vars == <<callSessions, sockets, drainTimers, debugLog, nowMs, secretEnv, minted, lastVerify,
          carrierEnv, callSidToSessionId, outbound, bridge, twilioSocket, realtimeSocket, wire,
          pendingMedia, summaryCache, summaryCalls, widgetState>>

(***************************************************************************)
(* Helpers                                                                 *)
(***************************************************************************)
Min(a, b) == IF a < b THEN a ELSE b
Max(a, b) == IF a > b THEN a ELSE b
Includes(seq, x) == \E i \in DOMAIN seq : seq[i] = x
\* Array.prototype.indexOf, zero-based, -1 when absent
IndexOf(seq, x) ==
  IF Includes(seq, x) THEN (CHOOSE i \in DOMAIN seq :
                              seq[i] = x /\ \A j \in 1..(i - 1) : seq[j] # x) - 1
  ELSE -1
\* Array.prototype.splice(index, 0, x), zero-based index
InsertAt(seq, index, x) ==
  SubSeq(seq, 1, index) \o <<x>> \o SubSeq(seq, index + 1, Len(seq))
\* a value is truthy when it is neither null/undefined nor the empty string
Truthy(x) == x # Null /\ x # ""
nowIso == ToString(nowMs)

(***************************************************************************)
(* viewer-token.ts                                                         *)
(* A string is a sequence of characters; a character of a token is a tuple *)
(* of strings: <<".">>, a base64url character <<"b64", c>> or a character  *)
(* of an HMAC digest.                                                      *)
(***************************************************************************)
Dot == <<".">>
Junk == <<"b64", "x">>
\* String.prototype.trim on an environment value
Trim(value) == IF value = " " THEN "" ELSE value

signingSecret ==
  IF Truthy(Trim(secretEnv.CALL_VIEWER_TOKEN_SECRET))
  THEN Trim(secretEnv.CALL_VIEWER_TOKEN_SECRET)
  ELSE IF Truthy(Trim(secretEnv.TWILIO_AUTH_TOKEN))
  THEN Trim(secretEnv.TWILIO_AUTH_TOKEN)
  ELSE IF Truthy(Trim(secretEnv.OPENAI_API_KEY))
  THEN Trim(secretEnv.OPENAI_API_KEY)
  ELSE "local-insecure-viewer-secret"

\* JSON.stringify({sessionId, exp})
JsonStringify(payload) == <<"{", payload.sessionId, ToString(payload.exp), "}">>
MaxExp == (MaxNowMs \div 1000) + MaxTtl + 1
IsPayloadJson(str) ==
  /\ Len(str) = 4
  /\ str[1] = "{"
  /\ str[4] = "}"
  /\ \E n \in 0..MaxExp : ToString(n) = str[3]
\* JSON.parse of a well-formed payload
JsonParse(str) ==
  [sessionId |-> str[2], exp |-> CHOOSE n \in 0..MaxExp : ToString(n) = str[3]]

base64UrlEncode(value) == [i \in DOMAIN value |-> <<"b64", value[i]>>]
base64UrlDecode(value) ==
  [i \in DOMAIN value |-> IF Len(value[i]) = 2 /\ value[i][1] = "b64"
                           THEN value[i][2] ELSE "?"]

\* HMAC-SHA256 under the process secret, base64url: a keyed digest of the
\* whole payload, different for different secrets or payloads
sign(payload) == <<<<"hmac", signingSecret>>>> \o payload

createViewerToken(sessionId, ttlSeconds) ==
  LET payload == [sessionId |-> sessionId, exp |-> (nowMs \div 1000) + ttlSeconds]
      encodedPayload == base64UrlEncode(JsonStringify(payload))
      signature == sign(encodedPayload)
  IN encodedPayload \o <<Dot>> \o signature

\* String.prototype.split("."): the sequence of the segments
RECURSIVE Split(_)
Split(token) ==
  IF ~Includes(token, Dot) THEN <<token>>
  ELSE LET i == IndexOf(token, Dot) + 1
       IN <<SubSeq(token, 1, i - 1)>> \o Split(SubSeq(token, i + 1, Len(token)))

\* a verifier that still accepts a token in the second it expires
verifyViewerToken_lenientExpiry(sessionId, token) ==
  LET parts == Split(token)
      encodedPayload == parts[1]
      hasSignature == Len(parts) >= 2
      providedSignature == IF hasSignature THEN parts[2] ELSE <<>>
      expectedSignature == sign(encodedPayload)
  IN IF encodedPayload = <<>> \/ ~hasSignature \/ providedSignature = <<>>
     THEN FALSE
     ELSE IF Len(expectedSignature) # Len(providedSignature)
             \/ expectedSignature # providedSignature
     THEN FALSE
     ELSE IF ~IsPayloadJson(base64UrlDecode(encodedPayload))
     THEN FALSE
     ELSE LET payload == JsonParse(base64UrlDecode(encodedPayload))
              now == nowMs \div 1000
          IN payload.sessionId = sessionId /\ payload.exp >= now

\* a verifier that does not compare the payload's session with the URL's
verifyViewerToken_anySession(sessionId, token) ==
  LET parts == Split(token)
      encodedPayload == parts[1]
      hasSignature == Len(parts) >= 2
      providedSignature == IF hasSignature THEN parts[2] ELSE <<>>
      expectedSignature == sign(encodedPayload)
  IN IF encodedPayload = <<>> \/ ~hasSignature \/ providedSignature = <<>>
     THEN FALSE
     ELSE IF Len(expectedSignature) # Len(providedSignature)
             \/ expectedSignature # providedSignature
     THEN FALSE
     ELSE IF ~IsPayloadJson(base64UrlDecode(encodedPayload))
     THEN FALSE
     ELSE LET payload == JsonParse(base64UrlDecode(encodedPayload))
              now == nowMs \div 1000
          IN payload.exp > now

verifyViewerToken(sessionId, token) ==
  LET parts == Split(token)
      encodedPayload == parts[1]
      hasSignature == Len(parts) >= 2
      providedSignature == IF hasSignature THEN parts[2] ELSE <<>>
      expectedSignature == sign(encodedPayload)
  IN IF encodedPayload = <<>> \/ ~hasSignature \/ providedSignature = <<>>
     THEN FALSE
     ELSE IF Len(expectedSignature) # Len(providedSignature)
             \/ expectedSignature # providedSignature
     THEN FALSE
     ELSE IF ~IsPayloadJson(base64UrlDecode(encodedPayload))
     THEN FALSE
     ELSE LET payload == JsonParse(base64UrlDecode(encodedPayload))
              now == nowMs \div 1000
          IN payload.sessionId = sessionId /\ payload.exp > now

(***************************************************************************)
(* call-session-store.ts                                                   *)
(***************************************************************************)
\* nextSequence without the increment
nextSequence_stuck(session) == session.seq
nextSequence(session) == session.seq + 1

\* an ensureTranscriptOrder that always pushes a new item at the end
ensureTranscriptOrder_ignoresAnchor(transcriptOrder, itemId, previousItemId) ==
  IF ~Includes(transcriptOrder, itemId) THEN Append(transcriptOrder, itemId)
  ELSE transcriptOrder

ensureTranscriptOrder(transcriptOrder, itemId, previousItemId) ==
  IF ~Includes(transcriptOrder, itemId)
  THEN IF Truthy(previousItemId) /\ Includes(transcriptOrder, previousItemId)
       THEN InsertAt(transcriptOrder, IndexOf(transcriptOrder, previousItemId) + 1, itemId)
       ELSE Append(transcriptOrder, itemId)
  ELSE transcriptOrder

\* socket.terminate(): the socket is destroyed, its 'close' event comes later
Terminate(sock) ==
  IF sock.readyState = 3 THEN sock
  ELSE [sock EXCEPT !.readyState = 2, !.closing = "terminate"]
\* socket.close(code): the closing handshake starts
CloseSocket(sock, code) ==
  IF sock.readyState = 1
  THEN [sock EXCEPT !.readyState = 2, !.closing = "close", !.closeCode = code]
  ELSE sock

\* a broadcast that lets the first failing write end the loop: the failing
\* subscriber is terminated and nobody is sent the event
broadcastLogEvent_abortsOnFailure(socks, session, event) ==
  IF \E v \in session.logSubscribers : socks[v].readyState = 1 /\ socks[v].sendThrows
  THEN [v \in ViewerIds |->
          IF v \in session.logSubscribers /\ socks[v].readyState = 1 /\ socks[v].sendThrows
          THEN Terminate(socks[v]) ELSE socks[v]]
  ELSE [v \in ViewerIds |->
          IF v \in session.logSubscribers /\ socks[v].readyState = 1
          THEN [socks[v] EXCEPT !.sent = Append(@, event)]
          ELSE socks[v]]

broadcastLogEvent(socks, session, event) ==
  [v \in ViewerIds |->
     IF v \in session.logSubscribers /\ socks[v].readyState = 1
     THEN IF socks[v].sendThrows
          THEN Terminate(socks[v])
          ELSE [socks[v] EXCEPT !.sent = Append(@, event)]
     ELSE socks[v]]

\* the stored event: the input plus the assigned seq
StampEvent(session, event) == [event EXCEPT !.seq = nextSequence(session)]

\* eviction that drops the newest events instead of the oldest
EvictOldest_keepsOldest(logEvents) ==
  IF Len(logEvents) > MAX_LOG_EVENTS
  THEN SubSeq(logEvents, 1, MAX_LOG_EVENTS)
  ELSE logEvents

EvictOldest(logEvents) ==
  IF Len(logEvents) > MAX_LOG_EVENTS
  THEN SubSeq(logEvents, Len(logEvents) - MAX_LOG_EVENTS + 1, Len(logEvents))
  ELSE logEvents

\* appendLogEvent's effect on the session; appendedEver is the history of
\* every event pushed, kept beside the log to state properties of evicted events
appendLogEvent(session, event) ==
  [session EXCEPT !.seq = nextSequence(session),
                  !.logEvents = EvictOldest(Append(@, StampEvent(session, event))),
                  !.appendedEver = Append(@, StampEvent(session, event))]

StatusEvent(status) == [type |-> "status", seq |-> 0, status |-> status]
SessionEndEvent(reason) == [type |-> "session.end", seq |-> 0, reason |-> reason]
DeltaEvent(item, textDelta) ==
  [type |-> "transcript.delta", seq |-> 0, itemId |-> item.itemId,
   speaker |-> item.speaker, textDelta |-> textDelta, order |-> item.order]
FinalEvent(item, fullText) ==
  [type |-> "transcript.final", seq |-> 0, itemId |-> item.itemId,
   speaker |-> item.speaker, fullText |-> fullText, order |-> item.order]
AudioLevelEvent(speaker, level) ==
  [type |-> "audio.level", seq |-> 0, speaker |-> speaker, level |-> level]

NewSession(sessionId) ==
  [sessionId |-> sessionId, callSid |-> Null, status |-> "queued",
   startedAt |-> nowIso, endedAt |-> Null, seq |-> 0,
   transcriptItems |-> <<>>, transcriptOrder |-> <<>>,
   logSubscribers |-> {}, logEvents |-> <<>>, terminalReason |-> Null,
   appendedEver |-> <<>>]

NewSocket ==
  [readyState |-> 0, sendThrows |-> FALSE, sent |-> <<>>, closing |-> Null,
   closeCode |-> 0, sessionId |-> Null, accepted |-> FALSE, closeTimer |-> FALSE,
   sinceSeq |-> 0, catchUp |-> <<>>, appendedAtAccept |-> 0,
   subscribedAtCatchUp |-> FALSE, delivered |-> 0]

Known(sessionId) == sessionId \in DOMAIN callSessions
CanAppend(sessionId, n) == callSessions[sessionId].seq + n <= MaxSeq

createCallSession(sessionId) ==
  /\ sessionId \notin DOMAIN callSessions
  /\ LET created == NewSession(sessionId)
         event == StatusEvent("queued")
     IN /\ callSessions' = [s \in DOMAIN callSessions \cup {sessionId} |->
                              IF s = sessionId THEN appendLogEvent(created, event)
                              ELSE callSessions[s]]
        /\ sockets' = broadcastLogEvent(sockets, created, StampEvent(created, event))
  /\ UNCHANGED <<drainTimers, debugLog, nowMs, tokenVars, callVars>>

\* one appendLogEvent call: the session gets the event, the subscribers a frame
Emit(st, event) ==
  [session |-> appendLogEvent(st.session, event),
   socks |-> broadcastLogEvent(st.socks, st.session, StampEvent(st.session, event)),
   timer |-> st.timer]

\* markTerminal that forgets to record endedAt
markTerminal_noEndedAt(st, reason) ==
  IF Truthy(st.session.endedAt) THEN st
  ELSE LET marked == [st.session EXCEPT !.terminalReason = reason]
           emitted == Emit([st EXCEPT !.session = marked], SessionEndEvent(reason))
       IN [emitted EXCEPT !.timer = TRUE]

markTerminal(st, reason) ==
  IF Truthy(st.session.endedAt) THEN st
  ELSE LET marked == [st.session EXCEPT !.endedAt = nowIso, !.terminalReason = reason]
           emitted == Emit([st EXCEPT !.session = marked], SessionEndEvent(reason))
       IN [emitted EXCEPT !.timer = TRUE]

DefaultReason(status) == IF status = "completed" THEN "Call completed" ELSE "Call failed"

\* updateCallStatus without the early return on an ended session
StatusUpdated_noTerminalGuard(session, status, reason) ==
  LET start == [session |-> session, socks |-> sockets, timer |-> FALSE]
      changed == session.status # status
      set == [start EXCEPT !.session.status = status]
      logged == IF changed \/ Truthy(reason)
                THEN Emit(set, StatusEvent(status)) ELSE set
  IN IF status \in TERMINAL_STATUSES
     THEN markTerminal(logged, IF reason = Null THEN DefaultReason(status) ELSE reason)
     ELSE logged

\* updateCallStatus that logs a status event on every call
StatusUpdated_alwaysLogs(session, status, reason) ==
  LET start == [session |-> session, socks |-> sockets, timer |-> FALSE]
  IN IF Truthy(session.endedAt) THEN start
     ELSE LET logged == Emit([start EXCEPT !.session.status = status], StatusEvent(status))
          IN IF status \in TERMINAL_STATUSES
             THEN markTerminal(logged, IF reason = Null THEN DefaultReason(status) ELSE reason)
             ELSE logged

\* the session, sockets and timer after updateCallStatus on a known session
StatusUpdated(session, status, reason) ==
  LET start == [session |-> session, socks |-> sockets, timer |-> FALSE]
  IN IF Truthy(session.endedAt) THEN start
     ELSE LET changed == session.status # status
              set == [start EXCEPT !.session.status = status]
              logged == IF changed \/ Truthy(reason)
                        THEN Emit(set, StatusEvent(status)) ELSE set
          IN IF status \in TERMINAL_STATUSES
             THEN markTerminal(logged, IF reason = Null THEN DefaultReason(status) ELSE reason)
             ELSE logged

\* logDebug("Ignoring status update for terminal session", {sessionId, ...})
IgnoredLine(sessionId) ==
  [message |-> "Ignoring status update for terminal session", sessionId |-> sessionId]

updateCallStatus(sessionId, status, reason) ==
  /\ IF ~Known(sessionId) THEN UNCHANGED storeVars
     ELSE /\ StatusUpdated(callSessions[sessionId], status, reason).session.seq <= MaxSeq
          /\ LET st == StatusUpdated(callSessions[sessionId], status, reason)
             IN /\ callSessions' = [callSessions EXCEPT ![sessionId] = st.session]
                /\ sockets' = st.socks
                /\ drainTimers' = IF st.timer THEN drainTimers \cup {sessionId}
                                  ELSE drainTimers
                /\ debugLog' = IF Truthy(callSessions[sessionId].endedAt)
                               THEN debugLog \cup {IgnoredLine(sessionId)}
                               ELSE debugLog
  /\ UNCHANGED <<nowMs, tokenVars, callVars>>

recordTranscriptOrder(sessionId, itemId, previousItemId) ==
  /\ IF ~Known(sessionId) THEN UNCHANGED callSessions
     ELSE LET session == callSessions[sessionId]
              order == ensureTranscriptOrder(session.transcriptOrder, itemId, previousItemId)
              items == IF itemId \in DOMAIN session.transcriptItems
                       THEN [session.transcriptItems EXCEPT
                               ![itemId].order = IndexOf(order, itemId)]
                       ELSE session.transcriptItems
          IN callSessions' = [callSessions EXCEPT
                                ![sessionId].transcriptOrder = order,
                                ![sessionId].transcriptItems = items]
  /\ UNCHANGED <<sockets, drainTimers, debugLog, nowMs, tokenVars, callVars>>

\* the session after upsertTranscriptItem; the item is then transcriptItems[itemId]
upsertTranscriptItem(session, itemId, speaker, previousItemId) ==
  IF itemId \in DOMAIN session.transcriptItems THEN session
  ELSE LET order == ensureTranscriptOrder(session.transcriptOrder, itemId, previousItemId)
           created == [itemId |-> itemId, speaker |-> speaker, text |-> <<>>,
                       isFinal |-> FALSE, seq |-> 0, order |-> IndexOf(order, itemId)]
       IN [session EXCEPT
             !.transcriptOrder = order,
             !.transcriptItems = [i \in DOMAIN @ \cup {itemId} |->
                                    IF i = itemId THEN created ELSE @[i]]]

\* the session once the item's text and isFinal are written and its order refreshed
ItemWritten(session, itemId, speaker, text, isFinal, previousItemId) ==
  LET upserted == upsertTranscriptItem(session, itemId, speaker, previousItemId)
      order == ensureTranscriptOrder(upserted.transcriptOrder, itemId, previousItemId)
  IN [upserted EXCEPT
        !.transcriptOrder = order,
        !.transcriptItems[itemId].text = text,
        !.transcriptItems[itemId].isFinal = isFinal,
        !.transcriptItems[itemId].order = IndexOf(order, itemId)]

\* appendLogEvent and the trailing item.seq = event.seq
TranscriptEmitted(session, itemId, event) ==
  LET st == Emit([session |-> session, socks |-> sockets, timer |-> FALSE], event)
  IN [st EXCEPT !.session.transcriptItems[itemId].seq = st.session.seq]

DeltaText(session, itemId, textDelta) ==
  IF itemId \in DOMAIN session.transcriptItems
  THEN session.transcriptItems[itemId].text \o textDelta
  ELSE textDelta

appendTranscriptDelta(sessionId, itemId, speaker, textDelta, previousItemId) ==
  /\ IF ~Known(sessionId) \/ Len(textDelta) = 0 THEN UNCHANGED <<callSessions, sockets>>
     ELSE /\ CanAppend(sessionId, 1)
          /\ LET session == callSessions[sessionId]
                 written == ItemWritten(session, itemId, speaker,
                                        DeltaText(session, itemId, textDelta),
                                        FALSE, previousItemId)
                 st == TranscriptEmitted(written, itemId,
                         DeltaEvent(written.transcriptItems[itemId], textDelta))
             IN /\ callSessions' = [callSessions EXCEPT ![sessionId] = st.session]
                /\ sockets' = st.socks
  /\ UNCHANGED <<drainTimers, debugLog, nowMs, tokenVars, callVars>>

appendTranscriptFinal(sessionId, itemId, speaker, fullText, previousItemId) ==
  /\ IF ~Known(sessionId) THEN UNCHANGED <<callSessions, sockets>>
     ELSE /\ CanAppend(sessionId, 1)
          /\ LET session == callSessions[sessionId]
                 written == ItemWritten(session, itemId, speaker, fullText,
                                        TRUE, previousItemId)
                 st == TranscriptEmitted(written, itemId,
                         FinalEvent(written.transcriptItems[itemId], fullText))
             IN /\ callSessions' = [callSessions EXCEPT ![sessionId] = st.session]
                /\ sockets' = st.socks
  /\ UNCHANGED <<drainTimers, debugLog, nowMs, tokenVars, callVars>>

\* a clamp without its upper end
Clamp_noCeiling(level) == Max(0, level)

\* Math.max(0, Math.min(1, level)), levels counted in 1/LevelUnit
Clamp(level) == Max(0, Min(LevelUnit, level))

appendAudioLevel(sessionId, speaker, level) ==
  /\ IF ~Known(sessionId) THEN UNCHANGED <<callSessions, sockets>>
     ELSE /\ CanAppend(sessionId, 1)
          /\ LET st == Emit([session |-> callSessions[sessionId], socks |-> sockets,
                             timer |-> FALSE],
                            AudioLevelEvent(speaker, Clamp(level)))
             IN /\ callSessions' = [callSessions EXCEPT ![sessionId] = st.session]
                /\ sockets' = st.socks
  /\ UNCHANGED <<drainTimers, debugLog, nowMs, tokenVars, callVars>>

\* a catch-up filter that also returns the event the viewer saw last
listLogEventsSince_inclusive(sessionId, sinceSeq) ==
  IF ~Known(sessionId) THEN <<>>
  ELSE SelectSeq(callSessions[sessionId].logEvents, LAMBDA event : event.seq >= sinceSeq)

listLogEventsSince(sessionId, sinceSeq) ==
  IF ~Known(sessionId) THEN <<>>
  ELSE SelectSeq(callSessions[sessionId].logEvents, LAMBDA event : event.seq > sinceSeq)

\* a subscribe that registers nobody
subscribeToCallLogs_registersNobody(session, subscriberId) == session

subscribeToCallLogs(session, subscriberId) ==
  [session EXCEPT !.logSubscribers = @ \cup {subscriberId}]

unsubscribeFromCallLogs(sessions, sessionId, subscriberId) ==
  IF sessionId \notin DOMAIN sessions THEN sessions
  ELSE [sessions EXCEPT ![sessionId].logSubscribers = @ \ {subscriberId}]

\* a drain that only forgets the subscribers and leaves their sockets open
closeSubscribers_leavesOpen(socks, session) == socks

\* the sockets after closeSubscribers; the subscriber map is cleared by the caller
closeSubscribers(socks, session) ==
  [v \in ViewerIds |->
     IF v \in session.logSubscribers
     THEN IF socks[v].readyState = 1 THEN CloseSocket(socks[v], 1000)
          ELSE Terminate(socks[v])
     ELSE socks[v]]

\* the setTimeout(..., 1000) callback scheduled by markTerminal
DrainTimerFires(sessionId) ==
  /\ sessionId \in drainTimers
  /\ sockets' = closeSubscribers(sockets, callSessions[sessionId])
  /\ callSessions' = [callSessions EXCEPT ![sessionId].logSubscribers = {}]
  /\ drainTimers' = drainTimers \ {sessionId}
  /\ UNCHANGED <<debugLog, nowMs, tokenVars, callVars>>

(***************************************************************************)
(* twilio-integration.ts: the /twilio/logs websocket                       *)
(***************************************************************************)
\* sinceSeq query values are integers; a negative or missing one parses to 0
parsePositiveInt(raw) == IF raw < 0 THEN 0 ELSE raw

\* the handleUpgrade callback of the logs server: socket v has just opened;
\* a missing sessionId or viewerToken parameter is Null or the empty token
LogsUpgrade(v, sessionId, viewerToken, rawSinceSeq) ==
  /\ sockets[v].readyState = 0
  /\ LET ws == [sockets[v] EXCEPT !.readyState = 1]
         sinceSeq == parsePositiveInt(rawSinceSeq)
     IN IF ~Truthy(sessionId) \/ viewerToken = <<>> \/ ~Known(sessionId)
        THEN /\ sockets' = [sockets EXCEPT ![v] = CloseSocket(ws, 1008)]
             /\ UNCHANGED callSessions
        ELSE IF ~verifyViewerToken(sessionId, viewerToken)
        THEN /\ sockets' = [sockets EXCEPT ![v] = CloseSocket(ws, 1008)]
             /\ UNCHANGED callSessions
        ELSE LET session == subscribeToCallLogs(callSessions[sessionId], v)
                 existingEvents == listLogEventsSince(sessionId, sinceSeq)
             IN /\ callSessions' = [callSessions EXCEPT ![sessionId] = session]
                /\ sockets' = [sockets EXCEPT ![v] =
                     [ws EXCEPT !.sent = @ \o existingEvents,
                                !.sessionId = sessionId,
                                !.accepted = TRUE,
                                !.closeTimer = Truthy(session.endedAt),
                                !.sinceSeq = sinceSeq,
                                !.catchUp = existingEvents,
                                !.appendedAtAccept = Len(session.appendedEver),
                                !.subscribedAtCatchUp = v \in session.logSubscribers]]
  /\ UNCHANGED <<drainTimers, debugLog, nowMs, tokenVars, callVars>>

\* a flush timeout whose callback does not close the socket
CloseTimerFires_noClose(v) ==
  /\ sockets[v].closeTimer
  /\ sockets' = [sockets EXCEPT ![v].closeTimer = FALSE]
  /\ UNCHANGED <<callSessions, drainTimers, debugLog, nowMs, tokenVars, callVars>>

\* the setTimeout(..., 250) callback of a viewer accepted on an ended session
CloseTimerFires(v) ==
  /\ sockets[v].closeTimer
  /\ sockets' = [sockets EXCEPT ![v] = [CloseSocket(@, 1000) EXCEPT !.closeTimer = FALSE]]
  /\ UNCHANGED <<callSessions, drainTimers, debugLog, nowMs, tokenVars, callVars>>

\* the ws 'close' handler of an accepted viewer
OnClose(v) ==
  IF sockets[v].accepted
  THEN callSessions' = unsubscribeFromCallLogs(callSessions, sockets[v].sessionId, v)
  ELSE UNCHANGED callSessions

\* a close started by the server (close or terminate) completes
SocketClosed(v) ==
  /\ sockets[v].readyState = 2
  /\ sockets' = [sockets EXCEPT ![v].readyState = 3]
  /\ OnClose(v)
  /\ UNCHANGED <<drainTimers, debugLog, nowMs, tokenVars, callVars>>

\* the browser closes or drops an open socket
PeerCloses(v) ==
  /\ sockets[v].readyState = 1
  /\ sockets' = [sockets EXCEPT ![v].readyState = 3, ![v].closing = "peer"]
  /\ OnClose(v)
  /\ UNCHANGED <<drainTimers, debugLog, nowMs, tokenVars, callVars>>

\* from now on socket.send throws on this socket
SocketBreaks(v) ==
  /\ sockets[v].readyState = 1
  /\ ~sockets[v].sendThrows
  /\ sockets' = [sockets EXCEPT ![v].sendThrows = TRUE]
  /\ UNCHANGED <<callSessions, drainTimers, debugLog, nowMs, tokenVars, callVars>>

(***************************************************************************)
(* twilio-integration.ts: starting the outbound call, the carrier's status *)
(* callbacks and the call-status read                                      *)
(***************************************************************************)
\* createViewerToken's default ttl; the source sets 10 * 60 seconds, the
\* model scales it to its clock
DEFAULT_TTL_SECONDS == MaxTtl

\* the carrier's CallStatus texts; "RINGING" stands for a text in capitals
CarrierStatusInputs ==
  {Null, "initiated", "ringing", "RINGING", "answered", "completed", "busy"}
ToLowerCase(text) == IF text = "RINGING" THEN "ringing" ELSE text

mapTwilioStatus(status) ==
  LET normalized == ToLowerCase(IF status = Null THEN "" ELSE status)
  IN IF normalized = "ringing" THEN "ringing"
     ELSE IF normalized = "in-progress" \/ normalized = "answered" THEN "in-progress"
     ELSE IF normalized = "queued" \/ normalized = "initiated" \/ normalized = "scheduled"
     THEN "queued"
     ELSE IF normalized = "completed" THEN "completed"
     ELSE "failed"

\* process.env.X?.trim() ?? ""
EnvText(value) == IF value = Null THEN "" ELSE Trim(value)
ConfigError ==
  "Twilio is not configured. Set TWILIO_ACCOUNT_SID, TWILIO_AUTH_TOKEN, and TWILIO_FROM_NUMBER."
\* the message without its hint to run the installer
SdkError == "Twilio SDK is not installed."
UnknownCreateError == "Twilio call creation failed with an unknown error."

\* a configuration check that does not ask for the caller number
getTwilioConfig_noFromNumber ==
  LET accountSid == EnvText(carrierEnv.TWILIO_ACCOUNT_SID)
      authToken == EnvText(secretEnv.TWILIO_AUTH_TOKEN)
      fromNumber == EnvText(carrierEnv.TWILIO_FROM_NUMBER)
  IN IF accountSid = "" \/ authToken = ""
     THEN [error |-> ConfigError, accountSid |-> "", authToken |-> "", fromNumber |-> ""]
     ELSE [error |-> Null, accountSid |-> accountSid, authToken |-> authToken,
           fromNumber |-> fromNumber]

getTwilioConfig ==
  LET accountSid == EnvText(carrierEnv.TWILIO_ACCOUNT_SID)
      authToken == EnvText(secretEnv.TWILIO_AUTH_TOKEN)
      fromNumber == EnvText(carrierEnv.TWILIO_FROM_NUMBER)
  IN IF accountSid = "" \/ authToken = "" \/ fromNumber = ""
     THEN [error |-> ConfigError, accountSid |-> "", authToken |-> "", fromNumber |-> ""]
     ELSE [error |-> Null, accountSid |-> accountSid, authToken |-> authToken,
           fromNumber |-> fromNumber]

\* the fields of CallStartResult that depend on the call; errorMessage is
\* absent (Null) unless a non-empty message is given
callStartPayload(sessionId, status, viewerToken, callSid, errorMessage) ==
  [sessionId |-> sessionId, status |-> status, viewerToken |-> viewerToken,
   reconnectSinceSeq |-> 0, callSid |-> callSid,
   errorMessage |-> IF Truthy(errorMessage) THEN errorMessage ELSE Null]

\* setCallSid on a known session: the session and the reverse index after it
SessionWithCallSid(session, callSid) == [session EXCEPT !.callSid = callSid]
IndexWithCallSid(index, session, callSid) ==
  LET previous == session.callSid
      kept == IF Truthy(previous) /\ previous \in DOMAIN index
                 /\ index[previous] = session.sessionId
              THEN DOMAIN index \ {previous} ELSE DOMAIN index
  IN [c \in kept \cup {callSid} |-> IF c = callSid THEN session.sessionId ELSE index[c]]

\* updateCallStatus on `session`, the session of that id as a caller has just
\* left it: the store after the call
StatusStored(session, status, reason) ==
  LET st == StatusUpdated(session, status, reason)
      sessionId == session.sessionId
  IN /\ st.session.seq <= MaxSeq
     /\ callSessions' = [s \in DOMAIN callSessions \cup {sessionId} |->
                           IF s = sessionId THEN st.session ELSE callSessions[s]]
     /\ sockets' = st.socks
     /\ drainTimers' = IF st.timer THEN drainTimers \cup {sessionId} ELSE drainTimers
     /\ debugLog' = IF Truthy(session.endedAt)
                    THEN debugLog \cup {IgnoredLine(sessionId)}
                    ELSE debugLog

Resulted(sessionId, result) ==
  [s \in DOMAIN outbound.results \cup {sessionId} |->
     IF s = sessionId THEN result ELSE outbound.results[s]]

\* startTwilioOutboundCall up to its first await: the session is created and
\* the token minted; without configuration or SDK the call fails here,
\* otherwise calls.create is requested and awaited
StartCall(sessionId) ==
  /\ ~Known(sessionId)
  /\ LET created == appendLogEvent(NewSession(sessionId), StatusEvent("queued"))
         viewerToken == createViewerToken(sessionId, DEFAULT_TTL_SECONDS)
         config == getTwilioConfig
         error == IF config.error # Null THEN config.error
                  ELSE IF ~carrierEnv.sdkInstalled THEN SdkError
                  ELSE Null
     IN /\ minted' = minted \cup {[token |-> viewerToken, sessionId |-> sessionId,
                                  exp |-> (nowMs \div 1000) + DEFAULT_TTL_SECONDS]}
        /\ IF error # Null
           THEN /\ StatusStored(created, "failed", error)
                /\ outbound' = [outbound EXCEPT !.results =
                     Resulted(sessionId, callStartPayload(sessionId, "failed", viewerToken,
                                                          created.callSid, error))]
           ELSE /\ callSessions' = [s \in DOMAIN callSessions \cup {sessionId} |->
                                      IF s = sessionId THEN created ELSE callSessions[s]]
                /\ outbound' = [outbound EXCEPT
                     !.requests = Append(@, [sessionId |-> sessionId,
                                             from |-> config.fromNumber]),
                     !.awaiting = @ \cup {[sessionId |-> sessionId,
                                           viewerToken |-> viewerToken]}]
                /\ UNCHANGED <<sockets, drainTimers, debugLog>>
  /\ UNCHANGED <<nowMs, secretEnv, lastVerify, carrierEnv, edgeVars, callSidToSessionId, bridgeVars>>

\* calls.create resolves with {sid, status}
CreateCallReturns(pending, sid, carrierStatus) ==
  /\ pending \in outbound.awaiting
  /\ LET sessionId == pending.sessionId
         callSid == IF Truthy(sid) THEN sid ELSE Null
         session == IF callSid # Null
                    THEN SessionWithCallSid(callSessions[sessionId], callSid)
                    ELSE callSessions[sessionId]
         status == mapTwilioStatus(carrierStatus)
     IN /\ callSidToSessionId' =
             IF callSid # Null
             THEN IndexWithCallSid(callSidToSessionId, callSessions[sessionId], callSid)
             ELSE callSidToSessionId
        /\ StatusStored(session, status, Null)
        /\ outbound' = [outbound EXCEPT
             !.awaiting = @ \ {pending},
             !.results = Resulted(sessionId,
               callStartPayload(sessionId,
                                IF status = "failed" \/ status = "completed"
                                THEN "queued" ELSE status,
                                pending.viewerToken, callSid, Null))]
  /\ UNCHANGED <<nowMs, tokenVars, carrierEnv, edgeVars, bridgeVars>>

\* calls.create rejects; a rejection without a text message gets the default one
CreateCallThrows(pending, message) ==
  /\ pending \in outbound.awaiting
  /\ LET sessionId == pending.sessionId
         errorMessage == IF message # Null THEN message ELSE UnknownCreateError
     IN /\ StatusStored(callSessions[sessionId], "failed", errorMessage)
        /\ outbound' = [outbound EXCEPT
             !.awaiting = @ \ {pending},
             !.results = Resulted(sessionId,
               callStartPayload(sessionId, "failed", pending.viewerToken,
                                callSessions[sessionId].callSid, errorMessage))]
  /\ UNCHANGED <<nowMs, tokenVars, carrierEnv, edgeVars, callSidToSessionId, bridgeVars>>

\* POST /twilio/status?sessionId=...: an unknown session is answered 404
handleTwilioStatus(sessionId, callbackSid, callbackStatus) ==
  /\ IF ~Truthy(sessionId) \/ ~Known(sessionId)
     THEN UNCHANGED <<storeVars, callSidToSessionId>>
     ELSE LET session == IF Truthy(callbackSid)
                         THEN SessionWithCallSid(callSessions[sessionId], callbackSid)
                         ELSE callSessions[sessionId]
              mappedStatus == mapTwilioStatus(callbackStatus)
              reason == IF Truthy(callbackStatus)
                        THEN "Twilio status: " \o callbackStatus ELSE Null
          IN /\ callSidToSessionId' =
                  IF Truthy(callbackSid)
                  THEN IndexWithCallSid(callSidToSessionId, callSessions[sessionId],
                                        callbackSid)
                  ELSE callSidToSessionId
             /\ StatusStored(session, mappedStatus, reason)
  /\ UNCHANGED <<nowMs, tokenVars, carrierEnv, edgeVars, outbound, bridgeVars>>

\* Array.from(transcriptItems.values()).sort(by order, then by seq); every
\* item holds the seq of an event of its own, so no two items compare equal
RECURSIVE SortedItems(_, _)
SortedItems(transcriptItems, itemIds) ==
  IF itemIds = {} THEN <<>>
  ELSE LET before(a, b) == \/ transcriptItems[a].order < transcriptItems[b].order
                           \/ /\ transcriptItems[a].order = transcriptItems[b].order
                              /\ transcriptItems[a].seq <= transcriptItems[b].seq
           first == CHOOSE a \in itemIds : \A b \in itemIds : before(a, b)
       IN <<transcriptItems[first]>> \o SortedItems(transcriptItems, itemIds \ {first})

getCallSessionSummary(sessionId) ==
  IF ~Known(sessionId) THEN Null
  ELSE LET session == callSessions[sessionId]
       IN [sessionId |-> session.sessionId, callSid |-> session.callSid,
           status |-> session.status, startedAt |-> session.startedAt,
           endedAt |-> session.endedAt, terminalReason |-> session.terminalReason,
           lastSeq |-> session.seq,
           transcript |-> SortedItems(session.transcriptItems,
                                      DOMAIN session.transcriptItems)]

\* the call-status output: the summary with the call context added
getTwilioCallStatusOutput(sessionId) == getCallSessionSummary(sessionId)

(***************************************************************************)
(* twilio-realtime-bridge.ts: one bridge between the carrier's media       *)
(* socket and the model's socket.  A 'message', 'open', 'error' or 'close' *)
(* callback is one action; the ws library sets a socket CLOSING before it  *)
(* emits 'error' and CLOSED before it emits 'close', and a socket that the *)
(* bridge closed with close() still delivers messages until its 'close'.   *)
(***************************************************************************)
WS_CONNECTING == 0
WS_OPEN == 1
WS_CLOSING == 2
WS_CLOSED == 3
PCMU_MAX_ABS_SAMPLE == 32124
\* one audio.level event per this many frames (8 in the code)
AUDIO_LEVEL_SAMPLE_EVERY_FRAMES == 2
\* no audio is added to an item that has MaxAudioBytes bytes or more, and a
\* bridge sends at most MaxControlEvents control events
MaxAudioBytes == 2
MaxControlEvents == 2
\* the clock ticks seen by one bridge
MaxBridgeTicks == 1
\* summaries asked for, and the clock ticks while they are asked for
MaxSummaryCalls == 3
MaxSummaryTicks == 1

\* a base64 text by its length, its padding and the RMS of the frame it
\* encodes; the empty text is no payload
NoAudio == [chars |-> 0, padding |-> 0, rms |-> 0]
Malformed == [chars |-> 1, padding |-> 0, rms |-> 0]
OneByte == [chars |-> 4, padding |-> 2, rms |-> PCMU_MAX_ABS_SAMPLE]

base64DecodedByteLength(encoded) ==
  LET decoded == ((encoded.chars * 3) \div 4) - encoded.padding
  IN IF decoded > 0 THEN decoded ELSE 0

\* bytes / 8; the model counts audio time in eighths of a millisecond
pcmuMillisecondsFromBase64(encoded) == base64DecodedByteLength(encoded)

\* the level of a frame in 1/LevelUnit; an empty frame has none (-1)
estimatePcmuLevel(encodedAudio) ==
  IF base64DecodedByteLength(encodedAudio) = 0 THEN -1
  ELSE LET capped == Min(PCMU_MAX_ABS_SAMPLE, Max(0, encodedAudio.rms))
       IN Min(LevelUnit, (capped * 34 * LevelUnit) \div (PCMU_MAX_ABS_SAMPLE * 10))

\* the assistant item the carrier was last sent audio of
NoForward == [item |-> Null, index |-> 0, audio |-> FALSE]

\* the closure of one bridgeTwilioToRealtime call; the two frame counters are
\* kept modulo AUDIO_LEVEL_SAMPLE_EVERY_FRAMES, all the code reads of them,
\* and audio time is kept in eighths of a millisecond
NoBridge ==
  [started |-> FALSE, sessionId |-> Null,
   twilioStreamSid |-> Null, twilioStopped |-> FALSE, twilioStartHandled |-> FALSE,
   twilioAudioLevelFrames |-> 0, realtimeAudioLevelFrames |-> 0,
   activeResponseId |-> Null, activeAssistantItemId |-> Null,
   activeAssistantContentIndex |-> 0, activeAssistantAudioMsSent |-> 0,
   activeAssistantAudioStartedAtMs |-> 0, assistantOutputActive |-> FALSE,
   interruptControlEventCounter |-> 0, lastInterruptControlEventSentAtMs |-> -1,
   pendingInterruptControlEventIds |-> {},
   forwarded |-> NoForward]

\* a socket of the bridge; errorPending: the library is about to emit 'error';
\* closedWith: the code its 'close' event carried
NoBridgeSocket ==
  [readyState |-> WS_CLOSED, closing |-> Null, closeCode |-> 0, errorPending |-> FALSE,
   closedWith |-> 0]

\* a frame written to one of the two sockets
Frame(to, type) ==
  [to |-> to, type |-> type, streamSid |-> Null, event_id |-> <<>>, item_id |-> Null,
   content_index |-> 0, audio_end_ms |-> 0, audio |-> NoAudio]

sendJson(socket, frame) == IF socket.readyState # WS_OPEN THEN <<>> ELSE <<frame>>

\* socket.terminate() of the ws client: a connecting socket aborts its
\* handshake, which emits 'error' and then 'close'
TerminateBridgeSocket(socket) ==
  IF socket.readyState = WS_CLOSED THEN socket
  ELSE [socket EXCEPT !.readyState = WS_CLOSING, !.closing = "terminate",
                      !.errorPending = (socket.readyState = WS_CONNECTING)]

\* a closeRealtime that leaves the socket as it is
closeRealtime_leavesOpen == realtimeSocket

closeRealtime ==
  IF realtimeSocket.readyState = WS_OPEN THEN CloseSocket(realtimeSocket, 1000)
  ELSE IF realtimeSocket.readyState = WS_CONNECTING
  THEN TerminateBridgeSocket(realtimeSocket)
  ELSE realtimeSocket

closeTwilio ==
  IF twilioSocket.readyState = WS_OPEN THEN CloseSocket(twilioSocket, 1000)
  ELSE IF twilioSocket.readyState = WS_CONNECTING
  THEN TerminateBridgeSocket(twilioSocket)
  ELSE twilioSocket

clearAssistantPlaybackTracking(b) ==
  [b EXCEPT !.activeAssistantItemId = Null,
            !.activeAssistantContentIndex = 0,
            !.activeAssistantAudioMsSent = 0,
            !.activeAssistantAudioStartedAtMs = 0,
            !.assistantOutputActive = FALSE]

\* the bridge and the frames written after one interruption control event;
\* of the id interrupt_<now>_<counter> the counter is kept, which tells the
\* ids of one bridge apart
sendInterruptControlEvent(b, frame) ==
  LET eventId == <<b.interruptControlEventCounter>>
  IN [bridge |-> [b EXCEPT !.interruptControlEventCounter = @ + 1,
                           !.pendingInterruptControlEventIds = @ \cup {eventId},
                           !.lastInterruptControlEventSentAtMs = nowMs],
      frames |-> sendJson(realtimeSocket, [frame EXCEPT !.event_id = eventId])]

\* an estimate that takes all the audio sent for played
estimatePlayedAssistantAudioMs_ignoresClock(b) == b.activeAssistantAudioMsSent

\* in eighths of a millisecond
estimatePlayedAssistantAudioMs(b) ==
  IF b.activeAssistantAudioStartedAtMs = 0 THEN b.activeAssistantAudioMsSent
  ELSE LET elapsedMs == Max(0, nowMs - b.activeAssistantAudioStartedAtMs)
       IN Min(b.activeAssistantAudioMsSent, elapsedMs * 8)

\* an interruption without the early return: the carrier is told to clear
\* even when no assistant output is active
interruptAssistantPlayback_noEarlyReturn(b) ==
  LET clear == IF Truthy(b.twilioStreamSid)
               THEN sendJson(twilioSocket,
                             [Frame("twilio", "clear") EXCEPT !.streamSid = b.twilioStreamSid])
               ELSE <<>>
      cancel == IF b.assistantOutputActive
                THEN sendInterruptControlEvent(b, Frame("realtime", "response.cancel"))
                ELSE [bridge |-> b, frames |-> <<>>]
  IN [bridge |-> clearAssistantPlaybackTracking(
                   [cancel.bridge EXCEPT !.activeResponseId = Null]),
      frames |-> clear \o cancel.frames]

\* an interruption that cancels the response but leaves the item untruncated
interruptAssistantPlayback_noTruncate(b) ==
  LET hasTrackedAssistantAudio == b.assistantOutputActive /\ b.activeAssistantAudioMsSent > 0
  IN IF ~b.assistantOutputActive /\ ~hasTrackedAssistantAudio
     THEN [bridge |-> b, frames |-> <<>>]
     ELSE LET clear == IF Truthy(b.twilioStreamSid)
                       THEN sendJson(twilioSocket,
                                     [Frame("twilio", "clear") EXCEPT
                                        !.streamSid = b.twilioStreamSid])
                       ELSE <<>>
              cancel == IF b.assistantOutputActive
                           /\ (Truthy(b.activeResponseId) \/ hasTrackedAssistantAudio)
                        THEN sendInterruptControlEvent(b, Frame("realtime", "response.cancel"))
                        ELSE [bridge |-> b, frames |-> <<>>]
          IN [bridge |-> clearAssistantPlaybackTracking(
                           [cancel.bridge EXCEPT !.activeResponseId = Null]),
              frames |-> clear \o cancel.frames]

\* the bridge and the frames written after interruptAssistantPlayback
interruptAssistantPlayback(b) ==
  LET hasTrackedAssistantAudio == b.assistantOutputActive /\ b.activeAssistantAudioMsSent > 0
      canTruncateAssistantAudio ==
        b.assistantOutputActive /\ Truthy(b.activeAssistantItemId) /\ hasTrackedAssistantAudio
  IN IF ~b.assistantOutputActive /\ ~hasTrackedAssistantAudio
     THEN [bridge |-> b, frames |-> <<>>]
     ELSE LET clear == IF Truthy(b.twilioStreamSid)
                       THEN sendJson(twilioSocket,
                                     [Frame("twilio", "clear") EXCEPT
                                        !.streamSid = b.twilioStreamSid])
                       ELSE <<>>
              cancel == IF b.assistantOutputActive
                           /\ (Truthy(b.activeResponseId) \/ hasTrackedAssistantAudio)
                        THEN sendInterruptControlEvent(b, Frame("realtime", "response.cancel"))
                        ELSE [bridge |-> b, frames |-> <<>>]
              truncate ==
                IF Truthy(b.activeAssistantItemId) /\ canTruncateAssistantAudio
                THEN sendInterruptControlEvent(
                       cancel.bridge,
                       [Frame("realtime", "conversation.item.truncate") EXCEPT
                          !.item_id = b.activeAssistantItemId,
                          !.content_index = b.activeAssistantContentIndex,
                          !.audio_end_ms =
                             Max(0, estimatePlayedAssistantAudioMs(b) \div 8)])
                ELSE [bridge |-> cancel.bridge, frames |-> <<>>]
          IN [bridge |-> clearAssistantPlaybackTracking(
                           [truncate.bridge EXCEPT !.activeResponseId = Null]),
              frames |-> clear \o cancel.frames \o truncate.frames]

\* a message reaches its handler while the socket is open, and after close()
\* until the peer's close frame arrives
Delivers(socket) ==
  \/ socket.readyState = WS_OPEN
  \/ socket.readyState = WS_CLOSING /\ socket.closing = "close"

\* room for one more live event that leaves room for the two closing events
Room(sessionId) ==
  \/ ~Known(sessionId)
  \/ Truthy(callSessions[sessionId].endedAt)
  \/ CanAppend(sessionId, 3)
LevelRoom(sessionId) ==
  \/ ~Known(sessionId)
  \/ IF Truthy(callSessions[sessionId].endedAt)
     THEN CanAppend(sessionId, 1) ELSE CanAppend(sessionId, 3)

\* updateCallStatus called by the bridge: the store after the call
BridgeStatus(sessionId, status, reason) ==
  IF ~Known(sessionId) THEN UNCHANGED storeVars
  ELSE StatusStored(callSessions[sessionId], status, reason)

\* appendAudioLevel called by the bridge: the store after the call
LevelStored(sessionId, speaker, level) ==
  IF ~Known(sessionId) THEN UNCHANGED storeVars
  ELSE LET st == Emit([session |-> callSessions[sessionId], socks |-> sockets,
                       timer |-> FALSE],
                      AudioLevelEvent(speaker, Clamp(level)))
       IN /\ callSessions' = [callSessions EXCEPT ![sessionId] = st.session]
          /\ sockets' = st.socks
          /\ UNCHANGED <<drainTimers, debugLog>>

\* one frame counted; the store after the sample taken on every
\* AUDIO_LEVEL_SAMPLE_EVERY_FRAMES-th frame
LevelSampled(sessionId, frames, speaker, encodedAudio) ==
  IF (frames + 1) % AUDIO_LEVEL_SAMPLE_EVERY_FRAMES = 0
     /\ estimatePcmuLevel(encodedAudio) # -1
  THEN /\ LevelRoom(sessionId)
       /\ LevelStored(sessionId, speaker, estimatePcmuLevel(encodedAudio))
  ELSE UNCHANGED storeVars

\* a parser that takes every frame for JSON
safeParseJson_lenient(raw) == [raw EXCEPT !.parses = TRUE]

\* safeParseJson: the frame's fields, or null, a payload without any field,
\* for a frame that is not JSON
safeParseJson(raw) ==
  IF raw.parses THEN raw
  ELSE [field \in DOMAIN raw |-> IF field = "parses" THEN FALSE ELSE Null]

NoStart == [parses |-> TRUE, event |-> Null, streamSid |-> Null, callSid |-> Null,
            customSessionId |-> Null, payload |-> NoAudio, reason |-> Null, callStatus |-> Null]

handleTwilioStartEvent(b, payload) ==
  IF b.twilioStartHandled
  THEN bridge' = b /\ UNCHANGED <<storeVars, callSidToSessionId>>
  ELSE /\ Room(b.sessionId)
       /\ bridge' = [b EXCEPT !.twilioStreamSid = payload.streamSid,
                              !.twilioStartHandled = TRUE]
       /\ IF ~Known(b.sessionId) THEN UNCHANGED <<storeVars, callSidToSessionId>>
          ELSE LET stored == callSessions[b.sessionId]
                   session == IF Truthy(payload.callSid)
                              THEN SessionWithCallSid(stored, payload.callSid)
                              ELSE stored
               IN /\ callSidToSessionId' =
                       IF Truthy(payload.callSid)
                       THEN IndexWithCallSid(callSidToSessionId, stored, payload.callSid)
                       ELSE callSidToSessionId
                  /\ StatusStored(session, "in-progress", Null)

\* bridgeTwilioToRealtime on an accepted media socket
bridgeTwilioToRealtime(sessionId, initialTwilioStartEvent) ==
  /\ bridge = NoBridge
  /\ Delivers(twilioSocket)
  /\ wire' = <<>>
  /\ IF ~Truthy(EnvText(secretEnv.OPENAI_API_KEY))
     THEN /\ BridgeStatus(sessionId, "failed", "OPENAI_API_KEY is not configured.")
          /\ twilioSocket' = CloseSocket(twilioSocket, 1011)
          /\ bridge' = [bridge EXCEPT !.sessionId = sessionId]
          /\ UNCHANGED <<realtimeSocket, callSidToSessionId>>
     ELSE /\ realtimeSocket' = [NoBridgeSocket EXCEPT !.readyState = WS_CONNECTING]
          /\ UNCHANGED twilioSocket
          /\ LET b == [bridge EXCEPT !.started = TRUE, !.sessionId = sessionId]
             IN IF initialTwilioStartEvent = NoStart
                THEN bridge' = b /\ UNCHANGED <<storeVars, callSidToSessionId>>
                ELSE handleTwilioStartEvent(b, initialTwilioStartEvent)
  /\ UNCHANGED <<nowMs, tokenVars, carrierEnv, outbound>>

\* realtimeSocket.on("open")
RealtimeOpen ==
  /\ bridge.started
  /\ realtimeSocket.readyState = WS_CONNECTING /\ realtimeSocket.closing = Null
  /\ realtimeSocket' = [realtimeSocket EXCEPT !.readyState = WS_OPEN]
  /\ wire' = sendJson(realtimeSocket', Frame("realtime", "session.update"))
  /\ UNCHANGED <<storeVars, nowMs, tokenVars, carrierEnv, edgeVars, callSidToSessionId, outbound,
                 bridge, twilioSocket>>

RealtimeEvent(type) ==
  [parses |-> TRUE, type |-> type, errorCode |-> Null, errorMessage |-> Null, errorEventId |-> <<>>,
   response_id |-> Null, item_id |-> Null, content_index |-> 0, delta |-> NoAudio]

\* message.includes("response.cancel") || message.includes("conversation.item.truncate")
NamesControlEvent(message) ==
  message \in {"response.cancel is not allowed", "conversation.item.truncate is not allowed"}

\* whether the error is one of the bridge's own control events, and the
\* pending ids after the question
isRecoverableInterruptError(b, event) ==
  IF event.errorEventId # <<>> /\ event.errorEventId \in b.pendingInterruptControlEventIds
  THEN [recoverable |-> TRUE,
        bridge |-> [b EXCEPT !.pendingInterruptControlEventIds = @ \ {event.errorEventId}]]
  ELSE LET message == IF event.errorMessage = Null THEN ""
                      ELSE ToLowerCase(event.errorMessage)
           sentInterruptRecently ==
             /\ b.lastInterruptControlEventSentAtMs # -1
             /\ nowMs - b.lastInterruptControlEventSentAtMs < 2500
       IN [recoverable |->
             \/ /\ sentInterruptRecently
                /\ event.errorCode \in {"response_cancel_not_active",
                                        "conversation_item_not_found",
                                        "conversation_item_already_completed"}
             \/ /\ event.errorCode = "invalid_request_error"
                /\ NamesControlEvent(message),
           bridge |-> b]

\* an error branch that takes every error for recoverable
RealtimeErrorEvent_ignoresAll(event) ==
  bridge' = bridge /\ UNCHANGED <<storeVars, twilioSocket>>

\* the "error" branch of the model's message handler
RealtimeErrorEvent(event) ==
  LET asked == isRecoverableInterruptError(bridge, event)
      errorMessage == IF event.errorMessage = Null
                      THEN "OpenAI Realtime returned an unknown error event."
                      ELSE event.errorMessage
  IN IF asked.recoverable
     THEN /\ bridge' = asked.bridge
          /\ UNCHANGED <<storeVars, twilioSocket>>
     ELSE /\ bridge' = clearAssistantPlaybackTracking(
                         [asked.bridge EXCEPT !.activeResponseId = Null])
          /\ BridgeStatus(bridge.sessionId, "failed", errorMessage)
          /\ twilioSocket' = closeTwilio

\* the "response.output_audio.delta" branch
RealtimeAudioDelta(event) ==
  IF event.delta = NoAudio \/ ~Truthy(bridge.twilioStreamSid)
  THEN wire' = <<>> /\ UNCHANGED <<bridge, storeVars>>
  ELSE LET payload == event.delta
           fresh == /\ Truthy(event.item_id)
                    /\ \/ bridge.activeAssistantItemId # event.item_id
                       \/ bridge.activeAssistantContentIndex # event.content_index
           sentBefore == IF fresh THEN 0 ELSE bridge.activeAssistantAudioMsSent
           startedAt == IF fresh \/ bridge.activeAssistantAudioStartedAtMs = 0
                        THEN nowMs ELSE bridge.activeAssistantAudioStartedAtMs
           frames == sendJson(twilioSocket,
                              [Frame("twilio", "media") EXCEPT
                                 !.streamSid = bridge.twilioStreamSid,
                                 !.audio = payload])
           heard == frames # <<>> /\ base64DecodedByteLength(payload) > 0
       IN /\ pcmuMillisecondsFromBase64(payload) = 0 \/ sentBefore < MaxAudioBytes
          /\ bridge' =
               [bridge EXCEPT
                  !.assistantOutputActive = TRUE,
                  !.activeResponseId =
                     IF Truthy(event.response_id) THEN event.response_id ELSE @,
                  !.activeAssistantItemId = IF fresh THEN event.item_id ELSE @,
                  !.activeAssistantContentIndex = IF fresh THEN event.content_index ELSE @,
                  !.activeAssistantAudioStartedAtMs = startedAt,
                  !.activeAssistantAudioMsSent =
                     sentBefore + pcmuMillisecondsFromBase64(payload),
                  !.realtimeAudioLevelFrames = (@ + 1) % AUDIO_LEVEL_SAMPLE_EVERY_FRAMES,
                  !.forwarded =
                     IF fresh
                     THEN [item |-> event.item_id, index |-> event.content_index,
                           audio |-> heard]
                     ELSE [@ EXCEPT !.audio = @ \/ heard]]
          /\ wire' = frames
          /\ LevelSampled(bridge.sessionId, bridge.realtimeAudioLevelFrames,
                          "assistant", payload)

\* realtimeSocket.on("message") with a JSON event that is not a transcript or
\* commit event (those write to the store alone, through appendTranscriptDelta,
\* appendTranscriptFinal and recordTranscriptOrder); an event of no type, of a
\* lifecycle type or of an unknown type changes nothing
RealtimeMessage(raw) ==
  /\ bridge.started
  /\ Delivers(realtimeSocket)
  /\ LET event == safeParseJson(raw) IN
     CASE ~event.parses ->
            wire' = <<>> /\ UNCHANGED <<bridge, storeVars, twilioSocket>>
       [] event.type = "error" ->
            RealtimeErrorEvent(event) /\ wire' = <<>>
       [] event.type = "response.created" ->
            /\ bridge' = [bridge EXCEPT !.activeResponseId = event.response_id]
            /\ wire' = <<>>
            /\ UNCHANGED <<storeVars, twilioSocket>>
       [] event.type = "response.output_audio.done" ->
            /\ bridge' = [clearAssistantPlaybackTracking(bridge) EXCEPT
                            !.forwarded = NoForward]
            /\ wire' = <<>>
            /\ UNCHANGED <<storeVars, twilioSocket>>
       [] event.type = "response.done" ->
            /\ bridge' = [clearAssistantPlaybackTracking(
                            [bridge EXCEPT !.activeResponseId = Null])
                          EXCEPT !.forwarded = NoForward]
            /\ wire' = <<>>
            /\ UNCHANGED <<storeVars, twilioSocket>>
       [] event.type = "input_audio_buffer.speech_started" ->
            LET interrupted == interruptAssistantPlayback(bridge)
            IN /\ interrupted.bridge.interruptControlEventCounter <= MaxControlEvents
               /\ bridge' = [interrupted.bridge EXCEPT !.forwarded = NoForward]
               /\ wire' = interrupted.frames
               /\ UNCHANGED <<storeVars, twilioSocket>>
       [] event.type = "response.output_audio.delta" ->
            RealtimeAudioDelta(event) /\ UNCHANGED twilioSocket
       [] OTHER ->
            wire' = <<>> /\ UNCHANGED <<bridge, storeVars, twilioSocket>>
  /\ UNCHANGED <<nowMs, tokenVars, carrierEnv, edgeVars, callSidToSessionId, outbound, realtimeSocket>>

\* realtimeSocket.on("unexpected-response"): the handshake was answered with
\* an HTTP error; the library leaves the socket to its listener
RealtimeUnexpectedResponse(statusCode) ==
  /\ bridge.started
  /\ realtimeSocket.readyState = WS_CONNECTING /\ realtimeSocket.closing = Null
  /\ realtimeSocket' = [realtimeSocket EXCEPT !.closing = "rejected"]
  /\ BridgeStatus(bridge.sessionId, "failed",
                  "OpenAI Realtime upgrade rejected"
                    \o (IF statusCode # 0 THEN " (" \o ToString(statusCode) \o ")" ELSE "")
                    \o ".")
  /\ twilioSocket' = closeTwilio
  /\ wire' = <<>>
  /\ UNCHANGED <<nowMs, tokenVars, carrierEnv, edgeVars, callSidToSessionId, outbound, bridge>>

\* realtimeSocket.on("error"): a failed handshake, a transport error, or the
\* abort of a connecting socket by terminate()
RealtimeSocketError(message) ==
  /\ bridge.started
  /\ \/ realtimeSocket.errorPending
     \/ realtimeSocket.readyState = WS_CONNECTING
     \/ Delivers(realtimeSocket)
  /\ realtimeSocket' = [realtimeSocket EXCEPT !.readyState = WS_CLOSING,
                                              !.closing = "error",
                                              !.errorPending = FALSE]
  /\ BridgeStatus(bridge.sessionId, "failed",
                  "OpenAI Realtime websocket error: " \o message)
  /\ bridge' = clearAssistantPlaybackTracking([bridge EXCEPT !.activeResponseId = Null])
  /\ twilioSocket' = closeTwilio
  /\ wire' = <<>>
  /\ UNCHANGED <<nowMs, tokenVars, carrierEnv, edgeVars, callSidToSessionId, outbound>>

\* the codes a 'close' event can carry: the peer's own, the answer to our
\* close(code), or 1006 when the connection went without a close frame
ClosesWith(socket, code) ==
  \/ socket.readyState = WS_OPEN
  \/ /\ socket.readyState = WS_CLOSING /\ ~socket.errorPending
     /\ IF socket.closing = "close" THEN code \in {socket.closeCode, 1006}
        ELSE code = 1006

\* realtimeSocket.on("close")
RealtimeSocketClose(code, reason) ==
  /\ bridge.started
  /\ ClosesWith(realtimeSocket, code)
  /\ realtimeSocket' = [realtimeSocket EXCEPT !.readyState = WS_CLOSED, !.closedWith = code]
  /\ IF ~bridge.twilioStopped /\ code # 1000
        /\ Known(bridge.sessionId) /\ ~Truthy(callSessions[bridge.sessionId].endedAt)
     THEN BridgeStatus(bridge.sessionId, "failed",
                       "OpenAI Realtime websocket closed with code " \o ToString(code)
                         \o (IF Truthy(reason) THEN " (" \o reason \o ")" ELSE ""))
     ELSE UNCHANGED storeVars
  /\ bridge' = clearAssistantPlaybackTracking([bridge EXCEPT !.activeResponseId = Null])
  /\ twilioSocket' = closeTwilio
  /\ wire' = <<>>
  /\ UNCHANGED <<nowMs, tokenVars, carrierEnv, edgeVars, callSidToSessionId, outbound>>

TwilioEvent(name) == [NoStart EXCEPT !.event = name]

\* a media branch that drops every frame
TwilioMedia_dropsAll(payload) == wire' = <<>> /\ UNCHANGED <<bridge, storeVars>>

\* the "media" branch of the carrier's message handler
TwilioMedia(payload) ==
  IF payload.payload = NoAudio \/ realtimeSocket.readyState # WS_OPEN
  THEN wire' = <<>> /\ UNCHANGED <<bridge, storeVars>>
  ELSE /\ wire' = sendJson(realtimeSocket,
                           [Frame("realtime", "input_audio_buffer.append") EXCEPT
                              !.audio = payload.payload])
       /\ bridge' = [bridge EXCEPT
                       !.twilioAudioLevelFrames = (@ + 1) % AUDIO_LEVEL_SAMPLE_EVERY_FRAMES]
       /\ LevelSampled(bridge.sessionId, bridge.twilioAudioLevelFrames,
                       "recipient", payload.payload)

\* options.twilioSocket.on("message") with a JSON event
TwilioMessage(raw) ==
  /\ bridge.started
  /\ Delivers(twilioSocket)
  /\ LET payload == safeParseJson(raw) IN
     CASE ~payload.parses ->
            wire' = <<>> /\ UNCHANGED <<bridge, storeVars, realtimeSocket, callSidToSessionId>>
       [] payload.event = "start" ->
            /\ handleTwilioStartEvent(bridge, payload)
            /\ wire' = <<>>
            /\ UNCHANGED realtimeSocket
       [] payload.event = "media" ->
            TwilioMedia(payload) /\ UNCHANGED <<realtimeSocket, callSidToSessionId>>
       [] payload.event = "stop" ->
            /\ bridge' = clearAssistantPlaybackTracking(
                           [bridge EXCEPT !.twilioStopped = TRUE,
                                          !.activeResponseId = Null])
            /\ BridgeStatus(bridge.sessionId, "completed",
                            IF Truthy(payload.reason) THEN payload.reason
                            ELSE IF Truthy(payload.callStatus) THEN payload.callStatus
                            ELSE "Twilio media stream stopped")
            /\ realtimeSocket' = closeRealtime
            /\ wire' = <<>>
            /\ UNCHANGED callSidToSessionId
       [] OTHER ->
            wire' = <<>> /\ UNCHANGED <<bridge, storeVars, realtimeSocket, callSidToSessionId>>
  /\ UNCHANGED <<nowMs, tokenVars, carrierEnv, edgeVars, outbound, twilioSocket>>

\* options.twilioSocket.on("close"); a media socket that was refused a bridge
\* has no bridge listening
TwilioSocketClose(code) ==
  /\ bridge.sessionId # Null
  /\ ClosesWith(twilioSocket, code)
  /\ twilioSocket' = [twilioSocket EXCEPT !.readyState = WS_CLOSED, !.closedWith = code]
  /\ IF bridge.started
     THEN /\ bridge' = [bridge EXCEPT !.twilioStopped = TRUE]
          /\ realtimeSocket' = closeRealtime
     ELSE UNCHANGED <<bridge, realtimeSocket>>
  /\ wire' = <<>>
  /\ UNCHANGED <<storeVars, nowMs, tokenVars, carrierEnv, edgeVars, callSidToSessionId, outbound>>

\* options.twilioSocket.on("error")
TwilioSocketError ==
  /\ bridge.started
  /\ Delivers(twilioSocket)
  /\ twilioSocket' = [twilioSocket EXCEPT !.readyState = WS_CLOSING, !.closing = "error"]
  /\ bridge' = [bridge EXCEPT !.twilioStopped = TRUE]
  /\ realtimeSocket' = closeRealtime
  /\ wire' = <<>>
  /\ UNCHANGED <<storeVars, nowMs, tokenVars, carrierEnv, edgeVars, callSidToSessionId, outbound>>

(***************************************************************************)
(* twilio-integration.ts: a media socket accepted without a session        *)
(***************************************************************************)
getSessionIdByCallSid(callSid) ==
  IF callSid \in DOMAIN callSidToSessionId THEN callSidToSessionId[callSid] ELSE Null

\* the session a start message names: its custom sessionId parameter when
\* that session exists, else the session of its callSid
resolvedSessionId(payload) ==
  LET customSessionId == payload.customSessionId
      customSession == IF Truthy(customSessionId) /\ Known(customSessionId)
                       THEN customSessionId ELSE Null
      callSid == payload.callSid
      callSidSession == IF Truthy(callSid) THEN getSessionIdByCallSid(callSid) ELSE Null
  IN IF customSession # Null THEN customSession ELSE callSidSession

\* no media socket is waiting for its start message
NoPendingMedia == [bridgeStarted |-> FALSE, timer |-> FALSE, listening |-> FALSE,
                   bridges |-> 0, timedOut |-> FALSE]

\* handleUpgrade's callback past the query binding: the timer is armed and
\* onPendingStart listens
PendingBinding == [NoPendingMedia EXCEPT !.timer = TRUE, !.listening = TRUE]

\* onPendingStart, the socket's message listener until a bridge is started
onPendingStart(raw) ==
  /\ pendingMedia.listening
  /\ Delivers(twilioSocket)
  /\ IF \/ pendingMedia.bridgeStarted
        \/ ~safeParseJson(raw).parses
        \/ safeParseJson(raw).event # "start"
     THEN UNCHANGED <<storeVars, edgeVars, bridgeVars, callSidToSessionId,
                      nowMs, tokenVars, carrierEnv, outbound>>
     ELSE IF resolvedSessionId(raw) = Null
     THEN /\ twilioSocket' = CloseSocket(twilioSocket, 1008)
          /\ UNCHANGED <<storeVars, edgeVars, bridge, realtimeSocket, wire,
                         callSidToSessionId, nowMs, tokenVars, carrierEnv, outbound>>
     ELSE /\ pendingMedia' = [pendingMedia EXCEPT !.bridgeStarted = TRUE,
                                                  !.timer = FALSE,
                                                  !.listening = FALSE,
                                                  !.bridges = @ + 1]
          /\ bridgeTwilioToRealtime(resolvedSessionId(raw), raw)
          /\ UNCHANGED <<summaryVars, widgetState>>

\* the callback of pendingSessionTimer
PendingSessionTimer ==
  /\ pendingMedia.timer
  /\ IF pendingMedia.bridgeStarted
     THEN /\ pendingMedia' = [pendingMedia EXCEPT !.timer = FALSE]
          /\ UNCHANGED twilioSocket
     ELSE /\ pendingMedia' = [pendingMedia EXCEPT !.timer = FALSE, !.timedOut = TRUE]
          /\ twilioSocket' = CloseSocket(twilioSocket, 1008)
  /\ UNCHANGED <<storeVars, bridge, realtimeSocket, wire, callSidToSessionId,
                 nowMs, tokenVars, carrierEnv, outbound, summaryVars, widgetState>>

\* ws.on("close") of the accepted socket, no bridge listening yet
PendingSocketClose(code) ==
  /\ pendingMedia.listening
  /\ ClosesWith(twilioSocket, code)
  /\ twilioSocket' = [twilioSocket EXCEPT !.readyState = WS_CLOSED, !.closedWith = code]
  /\ pendingMedia' = [pendingMedia EXCEPT !.timer = FALSE]
  /\ UNCHANGED <<storeVars, bridge, realtimeSocket, wire, callSidToSessionId,
                 nowMs, tokenVars, carrierEnv, outbound, summaryVars, widgetState>>

\* ws.on("error") of the accepted socket, no bridge listening yet
PendingSocketError ==
  /\ pendingMedia.listening
  /\ Delivers(twilioSocket)
  /\ twilioSocket' = [twilioSocket EXCEPT !.readyState = WS_CLOSING, !.closing = "error"]
  /\ pendingMedia' = [pendingMedia EXCEPT !.timer = FALSE]
  /\ UNCHANGED <<storeVars, bridge, realtimeSocket, wire, callSidToSessionId,
                 nowMs, tokenVars, carrierEnv, outbound, summaryVars, widgetState>>

(***************************************************************************)
(* twilio-integration.ts: the call summary and its cache                   *)
(***************************************************************************)
\* value.replace(/\s+/g, " ").trim()
collapseWhitespace(value) ==
  LET kept(i) == \/ value[i] # " "
                 \/ /\ i > 1 /\ value[i - 1] # " "
                    /\ \E j \in (i + 1)..Len(value) : value[j] # " "
      indexes == SelectSeq([i \in 1..Len(value) |-> i], kept)
  IN [k \in 1..Len(indexes) |-> value[indexes[k]]]

\* the items of the transcript whose text is not blank
transcriptLines(session) ==
  {i \in DOMAIN session.transcriptItems :
     Len(collapseWhitespace(session.transcriptItems[i].text)) > 0}

\* the lines of the prompt: speaker and collapsed text of the items of
\* summary.transcript whose text is not blank, in the summary's order
transcriptPrompt(summary) ==
  LET lines == [k \in DOMAIN summary.transcript |->
                  [speaker |-> summary.transcript[k].speaker,
                   text |-> collapseWhitespace(summary.transcript[k].text)]]
  IN SelectSeq(lines, LAMBDA line : Len(line.text) > 0)

\* what the remote summary request can come to: fetch rejects, a status that
\* is not OK, a body that is not JSON, a payload without output text, an output
\* text that is no JSON object, an object without a summary, an object whose
\* lists are missing, and a well-formed summary
RemoteOutcomes ==
  {"network", "status", "body", "no_text", "not_json", "no_summary", "no_lists", "ok"}

\* generateSummaryFromOpenAi once the request has its outcome: rejected (the
\* await of rawResponse.json() throws), null, or the parsed summary
generateSummaryFromOpenAi(outcome) ==
  CASE outcome = "body" -> [raised |-> TRUE, summary |-> Null, lists |-> FALSE]
    [] outcome \in {"network", "status", "no_text", "not_json", "no_summary"} ->
         [raised |-> FALSE, summary |-> Null, lists |-> FALSE]
    [] outcome = "no_lists" -> [raised |-> FALSE, summary |-> "openai", lists |-> FALSE]
    [] OTHER -> [raised |-> FALSE, summary |-> "openai", lists |-> TRUE]

\* the CallSummaryResult built of the session as read when the call began and
\* of the remote summary, stamped with the time of building
SummaryResult(call, openAiSummary) ==
  [sessionId |-> call.sessionId, status |-> call.status,
   summary |-> IF openAiSummary.summary # Null THEN "openai" ELSE "heuristic",
   keyPoints |-> IF openAiSummary.summary # Null /\ openAiSummary.lists
                 THEN "openai" ELSE "heuristic",
   source |-> IF openAiSummary.summary # Null THEN "openai" ELSE "heuristic",
   generatedAt |-> nowIso,
   transcriptItems |-> call.transcriptItems,
   basis |-> call.prompt]

NoResult ==
  [sessionId |-> Null, status |-> Null, summary |-> Null, keyPoints |-> Null,
   source |-> Null, generatedAt |-> Null, transcriptItems |-> 0, basis |-> <<>>]

\* the record of a call: what it read of the session when it began (seq,
\* status, number of items, prompt lines; the result's basis is the prompt it
\* was built of), whether
\* it was answered from the cache, whether it made the remote request, how
\* that request ended, and what the call returned
NoCall ==
  [sessionId |-> Null, state |-> "settled", hit |-> FALSE, requested |-> FALSE,
   outcome |-> Null, lastSeq |-> 0, status |-> Null, transcriptItems |-> 0,
   prompt |-> <<>>, result |-> NoResult]

\* the calls with the details dropped of every settled call but the latest
\* one and those of `keep`
Forget(calls, keep) ==
  [n \in DOMAIN calls |->
     IF calls[n].state = "awaiting" \/ n = Len(calls) \/ n \in keep
     THEN calls[n] ELSE NoCall]

\* a cache that files a result under the seq the session has when it is stored
CacheSet_currentSeq(cache, sessionId, lastSeq, result) ==
  [s \in DOMAIN cache \cup {sessionId} |->
     IF s = sessionId THEN [lastSeq |-> callSessions[sessionId].seq, result |-> result]
     ELSE cache[s]]

\* summaryCache.set(sessionId, {lastSeq, result})
CacheSet(cache, sessionId, lastSeq, result) ==
  [s \in DOMAIN cache \cup {sessionId} |->
     IF s = sessionId THEN [lastSeq |-> lastSeq, result |-> result] ELSE cache[s]]

\* getTwilioCallSummaryOutput up to its await: null for an unknown session,
\* the cached result when the cache holds the session's seq, the heuristic
\* result when there is nothing to summarize or no API key, else the remote
\* request is made and awaited
getTwilioCallSummaryOutput(sessionId) ==
  /\ Len(summaryCalls) < MaxSummaryCalls
  /\ LET summary == getCallSessionSummary(sessionId)
         call == [NoCall EXCEPT !.sessionId = sessionId, !.state = "returned"]
         calls == Forget(summaryCalls, {})
     IN IF ~Known(sessionId)
        THEN /\ summaryCalls' = Append(calls, [call EXCEPT !.state = "null"])
             /\ UNCHANGED summaryCache
        ELSE IF sessionId \in DOMAIN summaryCache
                /\ summaryCache[sessionId].lastSeq = summary.lastSeq
        THEN /\ summaryCalls' = Append(calls,
                                       [call EXCEPT !.hit = TRUE,
                                                    !.lastSeq = summary.lastSeq,
                                                    !.result = summaryCache[sessionId].result])
             /\ UNCHANGED summaryCache
        ELSE LET session == callSessions[sessionId]
                 began == [call EXCEPT !.lastSeq = summary.lastSeq,
                                       !.status = summary.status,
                                       !.transcriptItems = Len(summary.transcript),
                                       !.prompt = transcriptPrompt(summary)]
             IN IF transcriptLines(session) # {}
                   /\ Truthy(EnvText(secretEnv.OPENAI_API_KEY))
                THEN /\ summaryCalls' = Append(calls,
                                               [began EXCEPT !.state = "awaiting",
                                                             !.requested = TRUE])
                     /\ UNCHANGED summaryCache
                ELSE LET result == SummaryResult(began, generateSummaryFromOpenAi("network"))
                     IN /\ summaryCalls' = Append(calls, [began EXCEPT !.result = result])
                        /\ summaryCache' = CacheSet(summaryCache, sessionId,
                                                    began.lastSeq, result)
  /\ UNCHANGED <<storeVars, nowMs, tokenVars, carrierEnv, pendingMedia, widgetState,
                 callSidToSessionId, outbound, bridgeVars>>

\* the rest of getTwilioCallSummaryOutput, run when the remote request of
\* call n has its outcome
SummaryResponse(n, outcome) ==
  /\ n \in DOMAIN summaryCalls
  /\ summaryCalls[n].state = "awaiting"
  /\ LET call == summaryCalls[n]
         openAiSummary == generateSummaryFromOpenAi(outcome)
         result == SummaryResult(call, openAiSummary)
     IN IF openAiSummary.raised
        THEN /\ summaryCalls' = Forget([summaryCalls EXCEPT ![n].state = "raised",
                                                            ![n].outcome = outcome], {n})
             /\ UNCHANGED summaryCache
        ELSE /\ summaryCalls' = Forget([summaryCalls EXCEPT ![n].state = "returned",
                                                            ![n].outcome = outcome,
                                                            ![n].result = result], {n})
             /\ summaryCache' = CacheSet(summaryCache, call.sessionId, call.lastSeq, result)
  /\ UNCHANGED <<storeVars, nowMs, tokenVars, carrierEnv, pendingMedia, widgetState,
                 callSidToSessionId, outbound, bridgeVars>>

(***************************************************************************)
(* ui/student-trend: the viewer's state and its reducer                    *)
(***************************************************************************)
\* the widget before any tool output names a session
NoWidgetState ==
  [sessionId |-> Null, status |-> "ready", lastSeq |-> 0, transcript |-> <<>>,
   errorMessage |-> Null, isConnecting |-> FALSE]

\* a frame of the log stream; order -1 is an event without an order
LogFrame(type, seq) ==
  [type |-> type, seq |-> seq, status |-> Null, reason |-> Null, itemId |-> Null,
   speaker |-> Null, textDelta |-> <<>>, fullText |-> <<>>, order |-> -1]

\* JSON.stringify(event) of the store read back by JSON.parse in the widget
LogFrameOf(event) ==
  CASE event.type = "status" ->
         [LogFrame("status", event.seq) EXCEPT !.status = event.status]
    [] event.type = "session.end" ->
         [LogFrame("session.end", event.seq) EXCEPT !.reason = event.reason]
    [] event.type = "transcript.delta" ->
         [LogFrame("transcript.delta", event.seq) EXCEPT
            !.itemId = event.itemId, !.speaker = event.speaker,
            !.textDelta = event.textDelta, !.order = event.order]
    [] event.type = "transcript.final" ->
         [LogFrame("transcript.final", event.seq) EXCEPT
            !.itemId = event.itemId, !.speaker = event.speaker,
            !.fullText = event.fullText, !.order = event.order]
    [] OTHER -> LogFrame(event.type, event.seq)

\* parseLogEvent: null (a frame of no type) for a type the widget does not
\* know, a status without a status, a transcript frame without an item id or
\* with an unknown speaker, and a delta without text
parseLogEvent(raw) ==
  LET named == raw.itemId # Null /\ raw.speaker \in {"recipient", "assistant"}
      valid == CASE raw.type = "status" -> raw.status # Null
                 [] raw.type = "transcript.delta" -> named /\ raw.textDelta # <<>>
                 [] raw.type = "transcript.final" -> named
                 [] raw.type = "session.end" -> TRUE
                 [] OTHER -> FALSE
  IN IF valid THEN raw ELSE [raw EXCEPT !.type = Null]

LineBefore(left, right) ==
  \/ left.order < right.order
  \/ left.order = right.order /\ left.seq <= right.seq

\* a stable sort by order, then by seq
RECURSIVE sortTranscript(_)
sortTranscript(lines) ==
  IF lines = <<>> THEN <<>>
  ELSE LET first == CHOOSE i \in DOMAIN lines :
                      /\ \A j \in DOMAIN lines : LineBefore(lines[i], lines[j])
                      /\ \A j \in 1..(i - 1) : ~LineBefore(lines[j], lines[i])
           rest == [k \in 1..(Len(lines) - 1) |-> IF k < first THEN lines[k] ELSE lines[k + 1]]
       IN <<lines[first]>> \o sortTranscript(rest)

\* a reducer that applies every event it is given
applyLogEvent_noDedup(state, event) ==
  [state EXCEPT !.lastSeq = event.seq, !.isConnecting = FALSE,
                !.status = IF event.type = "status" THEN event.status ELSE @]

\* a reducer whose deltas replace the text of their line
applyLogEvent_replacesText(state, event) ==
  IF event.seq <= state.lastSeq THEN state
  ELSE IF event.type \in {"status", "session.end"}
  THEN [state EXCEPT !.lastSeq = event.seq, !.isConnecting = FALSE,
                     !.status = IF event.type = "status" THEN event.status ELSE @]
  ELSE LET lines == state.transcript
           found == {i \in DOMAIN lines : /\ lines[i].itemId = event.itemId
                                          /\ lines[i].speaker = event.speaker}
           line == [itemId |-> event.itemId, speaker |-> event.speaker,
                    text |-> IF event.type = "transcript.final"
                             THEN event.fullText ELSE event.textDelta,
                    isFinal |-> event.type = "transcript.final",
                    seq |-> event.seq, order |-> event.order]
       IN [state EXCEPT !.transcript =
                          sortTranscript(IF found = {} THEN Append(lines, line)
                                         ELSE [i \in DOMAIN lines |->
                                                 IF i \in found THEN line ELSE lines[i]]),
                        !.lastSeq = event.seq, !.isConnecting = FALSE]

applyLogEvent(state, event) ==
  IF event.seq <= state.lastSeq THEN state
  ELSE IF event.type = "status"
  THEN [state EXCEPT !.status = event.status, !.lastSeq = event.seq,
                     !.isConnecting = FALSE]
  ELSE IF event.type = "session.end"
  THEN [state EXCEPT !.lastSeq = event.seq, !.isConnecting = FALSE,
                     !.errorMessage = IF @ # Null THEN @ ELSE event.reason]
  ELSE LET lines == state.transcript
           found == {i \in DOMAIN lines : /\ lines[i].itemId = event.itemId
                                          /\ lines[i].speaker = event.speaker}
           existingIndex == IF found = {} THEN 0
                            ELSE CHOOSE i \in found : \A j \in found : i <= j
           isFinal == event.type = "transcript.final"
           text == IF isFinal THEN event.fullText
                   ELSE IF existingIndex > 0 THEN lines[existingIndex].text \o event.textDelta
                   ELSE event.textDelta
           order == IF event.order # -1 THEN event.order
                    ELSE IF existingIndex > 0 THEN lines[existingIndex].order
                    ELSE Len(lines)
           line == [itemId |-> event.itemId, speaker |-> event.speaker, text |-> text,
                    isFinal |-> isFinal, seq |-> event.seq, order |-> order]
           updatedTranscript == IF existingIndex > 0
                                THEN [lines EXCEPT ![existingIndex] = line]
                                ELSE Append(lines, line)
       IN [state EXCEPT !.transcript = sortTranscript(updatedTranscript),
                        !.lastSeq = event.seq, !.isConnecting = FALSE]

\* socket.onmessage of the log stream
LogSocketMessage(raw) ==
  /\ widgetState' = IF parseLogEvent(raw).type = Null THEN widgetState
                    ELSE applyLogEvent(widgetState, parseLogEvent(raw))
  /\ UNCHANGED <<storeVars, nowMs, tokenVars, carrierEnv, pendingMedia, summaryVars,
                 callSidToSessionId, outbound, bridgeVars>>

\* the next frame the server wrote to viewer v reaches the widget's
\* socket.onmessage; delivered counts the frames that have
ViewerReceives(v) ==
  /\ sockets[v].delivered < Len(sockets[v].sent)
  /\ LET raw == LogFrameOf(sockets[v].sent[sockets[v].delivered + 1])
     IN widgetState' = IF parseLogEvent(raw).type = Null THEN widgetState
                       ELSE applyLogEvent(widgetState, parseLogEvent(raw))
  /\ sockets' = [sockets EXCEPT ![v].delivered = @ + 1]
  /\ UNCHANGED <<callSessions, drainTimers, debugLog, nowMs, tokenVars, carrierEnv,
                 pendingMedia, summaryVars, callSidToSessionId, outbound, bridgeVars>>

(***************************************************************************)
(* The token service's callers and the clock                               *)
(***************************************************************************)
Tick ==
  /\ nowMs + ClockStepMs <= MaxNowMs
  /\ nowMs' = nowMs + ClockStepMs
  /\ UNCHANGED <<storeVars, tokenVars, callVars>>

MintToken(sessionId, ttlSeconds) ==
  /\ Cardinality(minted) < MaxMinted
  /\ minted' = minted \cup {[token |-> createViewerToken(sessionId, ttlSeconds),
                             sessionId |-> sessionId,
                             exp |-> (nowMs \div 1000) + ttlSeconds]}
  /\ UNCHANGED <<storeVars, nowMs, secretEnv, lastVerify, callVars>>

\* what a client can make of a minted token without the secret
PayloadOf(token) == Split(token)[1]
SignatureOf(token) == Split(token)[2]
Presented(token) ==
  { token,
    token \o <<Dot, Junk>>,
    token \o <<Junk>>,
    PayloadOf(token),
    PayloadOf(token) \o <<Dot>>,
    <<Dot>> \o SignatureOf(token),
    [PayloadOf(token) EXCEPT ![3] = <<"b64", ToString(MaxExp)>>]
      \o <<Dot>> \o SignatureOf(token),
    [PayloadOf(token) EXCEPT ![2] = Junk] \o <<Dot>> \o SignatureOf(token),
    SubSeq(PayloadOf(token), 1, 3) \o <<Dot>> \o SignatureOf(token),
    PayloadOf(token) \o <<Dot>> \o <<<<"hmac", "guess">>>> \o PayloadOf(token),
    PayloadOf(token) \o <<Dot>> \o
      [SignatureOf(token) EXCEPT ![Len(SignatureOf(token))] = Junk] }
  \cup { PayloadOf(token) \o <<Dot>> \o SignatureOf(m.token) : m \in minted }

PresentedTokens == UNION {Presented(m.token) : m \in minted}

VerifyToken(sessionId, token) ==
  /\ lastVerify' = [called |-> TRUE, sessionId |-> sessionId, token |-> token,
                    atMs |-> nowMs, result |-> verifyViewerToken(sessionId, token)]
  /\ UNCHANGED <<storeVars, nowMs, secretEnv, minted, callVars>>

(***************************************************************************)
(* Specifications                                                          *)
(***************************************************************************)
\* no carrier account, no call started
NoCarrier == [TWILIO_ACCOUNT_SID |-> Null, TWILIO_FROM_NUMBER |-> Null, sdkInstalled |-> FALSE]
NoOutbound == [requests |-> <<>>, awaiting |-> {}, results |-> <<>>]
InitEdgeIdle ==
  /\ pendingMedia = NoPendingMedia
  /\ summaryCache = <<>>
  /\ summaryCalls = <<>>
  /\ widgetState = NoWidgetState
InitBridgeIdle ==
  /\ bridge = NoBridge
  /\ twilioSocket = NoBridgeSocket
  /\ realtimeSocket = NoBridgeSocket
  /\ wire = <<>>
InitCallIdle ==
  /\ carrierEnv = NoCarrier
  /\ InitEdgeIdle
  /\ callSidToSessionId = <<>>
  /\ outbound = NoOutbound
  /\ InitBridgeIdle

NoSecrets ==
  [CALL_VIEWER_TOKEN_SECRET |-> Null, TWILIO_AUTH_TOKEN |-> Null, OPENAI_API_KEY |-> Null]

InitStore ==
  /\ callSessions = <<>>
  /\ sockets = [v \in ViewerIds |-> NewSocket]
  /\ drainTimers = {}
  /\ debugLog = {}
  /\ nowMs = 0
  /\ secretEnv = NoSecrets
  /\ minted = {}
  /\ lastVerify = [called |-> FALSE, sessionId |-> Null, token |-> <<>>,
                   atMs |-> 0, result |-> FALSE]
  /\ InitCallIdle

\* the store driven by its callers, no viewer connected; a call made before
\* createCallSession is a call with an unknown session id
NextStore ==
  \/ \E s \in CreatedIds : createCallSession(s)
  \/ \E s \in CreatedIds, status \in StatusInputs, reason \in ReasonInputs :
       updateCallStatus(s, status, reason)
  \/ \E s \in CreatedIds, i \in ItemIds, p \in PreviousItemInputs :
       recordTranscriptOrder(s, i, p)
  \/ \E s \in CreatedIds, i \in ItemIds, sp \in Speakers, d \in DeltaInputs,
        p \in PreviousItemInputs : appendTranscriptDelta(s, i, sp, d, p)
  \/ \E s \in CreatedIds, i \in ItemIds, sp \in Speakers, t \in FullTextInputs,
        p \in PreviousItemInputs : appendTranscriptFinal(s, i, sp, t, p)
  \/ \E s \in CreatedIds, l \in LevelInputs : appendAudioLevel(s, "assistant", l)

SpecStore == InitStore /\ [][NextStore]_vars

\* one environment for each branch of signingSecret
SecretEnvs ==
  { [CALL_VIEWER_TOKEN_SECRET |-> "cv", TWILIO_AUTH_TOKEN |-> "tw", OPENAI_API_KEY |-> "oa"],
    [CALL_VIEWER_TOKEN_SECRET |-> " ", TWILIO_AUTH_TOKEN |-> "tw", OPENAI_API_KEY |-> Null],
    [CALL_VIEWER_TOKEN_SECRET |-> Null, TWILIO_AUTH_TOKEN |-> Null, OPENAI_API_KEY |-> "oa"],
    NoSecrets }

InitToken ==
  /\ callSessions = <<>>
  /\ sockets = [v \in ViewerIds |-> NewSocket]
  /\ drainTimers = {}
  /\ debugLog = {}
  /\ nowMs = 0
  /\ secretEnv \in SecretEnvs
  /\ minted = {}
  /\ lastVerify = [called |-> FALSE, sessionId |-> Null, token |-> <<>>,
                   atMs |-> 0, result |-> FALSE]
  /\ InitCallIdle

NextToken ==
  \/ Tick
  \/ \E s \in SessionIds, ttl \in 1..MaxTtl : MintToken(s, ttl)
  \/ \E s \in SessionIds, t \in PresentedTokens : VerifyToken(s, t)

SpecToken == InitToken /\ [][NextToken]_vars

\* the carrier account: complete, without account id, with a blank caller
\* number, and complete but without the SDK
CarrierEnvs ==
  { [TWILIO_ACCOUNT_SID |-> "AC1", TWILIO_FROM_NUMBER |-> "+1555", sdkInstalled |-> TRUE],
    [TWILIO_ACCOUNT_SID |-> Null, TWILIO_FROM_NUMBER |-> "+1555", sdkInstalled |-> TRUE],
    [TWILIO_ACCOUNT_SID |-> "AC1", TWILIO_FROM_NUMBER |-> " ", sdkInstalled |-> TRUE],
    [TWILIO_ACCOUNT_SID |-> "AC1", TWILIO_FROM_NUMBER |-> "+1555", sdkInstalled |-> FALSE] }
CallSidInputs == {Null, "CA1"}
CreateErrorInputs == {Null, "Unable to create record"}

InitStart ==
  /\ callSessions = <<>>
  /\ sockets = [v \in ViewerIds |-> NewSocket]
  /\ drainTimers = {}
  /\ debugLog = {}
  /\ nowMs = 0
  /\ secretEnv \in SecretEnvs
  /\ minted = {}
  /\ lastVerify = [called |-> FALSE, sessionId |-> Null, token |-> <<>>,
                   atMs |-> 0, result |-> FALSE]
  /\ carrierEnv \in CarrierEnvs
  /\ InitEdgeIdle
  /\ callSidToSessionId = <<>>
  /\ outbound = NoOutbound
  /\ InitBridgeIdle

\* calls being started while the carrier answers and posts status callbacks
NextStart ==
  \/ Tick
  \/ \E s \in CreatedIds : StartCall(s)
  \/ \E p \in outbound.awaiting, sid \in CallSidInputs, cs \in CarrierStatusInputs :
       CreateCallReturns(p, sid, cs)
  \/ \E p \in outbound.awaiting, message \in CreateErrorInputs : CreateCallThrows(p, message)
  \/ \E s \in SessionIds, sid \in CallSidInputs, cs \in CarrierStatusInputs :
       handleTwilioStatus(s, sid, cs)

SpecStart == InitStart /\ [][NextStart]_vars

\* the environments of a bridge: without and with a model API key
NoKey == NoSecrets
WithKey == [NoSecrets EXCEPT !.OPENAI_API_KEY = "oa"]

\* what the carrier sends on the media socket
TwilioStart == [TwilioEvent("start") EXCEPT !.streamSid = "MZ1", !.callSid = "CA1"]
TwilioLifeEvents ==
  { TwilioStart,
    [TwilioEvent("media") EXCEPT !.payload = OneByte],
    TwilioEvent("stop"),
    [TwilioEvent("stop") EXCEPT !.reason = "completed"],
    [TwilioEvent("stop") EXCEPT !.callStatus = "busy"],
    TwilioEvent("mark"),
    TwilioEvent(Null),
    [TwilioEvent("stop") EXCEPT !.parses = FALSE] }
TwilioAudioEvents == {TwilioStart, TwilioEvent("start")}

\* what the model sends on its socket
AudioDelta(itemId, contentIndex, responseId, payload) ==
  [RealtimeEvent("response.output_audio.delta") EXCEPT
     !.item_id = itemId, !.content_index = contentIndex, !.response_id = responseId,
     !.delta = payload]
DeltaEvents ==
  { AudioDelta(Null, 0, Null, NoAudio),
    AudioDelta(Null, 0, Null, OneByte),
    AudioDelta("i1", 1, Null, Malformed),
    AudioDelta("i1", 1, "r1", OneByte) }
ErrorEvents ==
  { RealtimeEvent("error"),
    [RealtimeEvent("error") EXCEPT !.errorCode = "response_cancel_not_active"],
    [RealtimeEvent("error") EXCEPT !.errorCode = "invalid_request_error",
                                   !.errorMessage = "response.cancel is not allowed"],
    [RealtimeEvent("error") EXCEPT !.errorCode = "invalid_request_error"] }
RealtimeLifeEvents ==
  { [RealtimeEvent("error") EXCEPT !.errorMessage = "Invalid value"],
    RealtimeEvent("error"),
    RealtimeEvent("session.updated"),
    RealtimeEvent("rate_limits.updated"),
    RealtimeEvent(Null),
    [RealtimeEvent("error") EXCEPT !.parses = FALSE] }
RealtimeAudioEvents ==
  DeltaEvents \cup ErrorEvents
    \cup { [RealtimeEvent("error") EXCEPT !.errorEventId = id] :
           id \in bridge.pendingInterruptControlEventIds }
    \cup { [RealtimeEvent("response.created") EXCEPT !.response_id = "r1"],
           RealtimeEvent("response.output_audio.done"),
           RealtimeEvent("response.done"),
           RealtimeEvent("input_audio_buffer.speech_started"),
           RealtimeEvent(Null) }
CloseCodes == {1000, 1006, 1011}
CloseReasons == {"", "going away"}
SocketErrorInputs == {"socket hang up"}
UpgradeStatusInputs == {0, 401}

\* a created session whose media socket the server has just accepted
InitBridge ==
  /\ nowMs = 0
  /\ callSessions = [s \in CreatedIds |-> appendLogEvent(NewSession(s), StatusEvent("queued"))]
  /\ sockets = [v \in ViewerIds |-> NewSocket]
  /\ drainTimers = {}
  /\ debugLog = {}
  /\ secretEnv \in {NoKey, WithKey}
  /\ minted = {}
  /\ lastVerify = [called |-> FALSE, sessionId |-> Null, token |-> <<>>,
                   atMs |-> 0, result |-> FALSE]
  /\ carrierEnv = NoCarrier
  /\ InitEdgeIdle
  /\ callSidToSessionId = <<>>
  /\ outbound = NoOutbound
  /\ bridge = NoBridge
  /\ twilioSocket = [NoBridgeSocket EXCEPT !.readyState = WS_OPEN]
  /\ realtimeSocket = NoBridgeSocket
  /\ wire = <<>>

\* the life of one bridge: its two sockets open, fail and close; no status
\* callback arrives
NextBridge ==
  \/ Tick /\ nowMs < MaxBridgeTicks * ClockStepMs
  \/ \E s \in CreatedIds, start \in {NoStart, TwilioStart} :
       bridgeTwilioToRealtime(s, start) /\ UNCHANGED edgeVars
  \/ RealtimeOpen
  \/ \E event \in RealtimeLifeEvents : RealtimeMessage(event)
  \/ \E statusCode \in UpgradeStatusInputs : RealtimeUnexpectedResponse(statusCode)
  \/ \E message \in SocketErrorInputs : RealtimeSocketError(message)
  \/ \E code \in CloseCodes, reason \in CloseReasons : RealtimeSocketClose(code, reason)
  \/ \E payload \in TwilioLifeEvents : TwilioMessage(payload)
  \/ \E code \in CloseCodes : TwilioSocketClose(code)
  \/ TwilioSocketError

SpecBridge == InitBridge /\ [][NextBridge]_vars

\* a socket that is closing gets its 'close' event, an aborted handshake its
\* 'error' event
FairBridge ==
  /\ WF_vars(twilioSocket.readyState = WS_CLOSING /\ \E code \in CloseCodes :
               TwilioSocketClose(code))
  /\ WF_vars(realtimeSocket.readyState = WS_CLOSING /\ \E code \in CloseCodes :
               RealtimeSocketClose(code, ""))
  /\ WF_vars(realtimeSocket.errorPending /\ \E message \in SocketErrorInputs :
               RealtimeSocketError(message))
SpecBridgeFair == InitBridge /\ [][NextBridge]_vars /\ FairBridge

\* a media socket accepted without a session, the session created and its
\* carrier call id known or not yet known
PendingInputs ==
  { TwilioStart,
    [TwilioStart EXCEPT !.customSessionId = "S1"],
    [TwilioStart EXCEPT !.customSessionId = "S2", !.callSid = Null],
    [TwilioEvent("media") EXCEPT !.payload = OneByte],
    [NoStart EXCEPT !.parses = FALSE] }
InitBind ==
  /\ nowMs = 0
  /\ \E callSid \in CallSidInputs :
       LET created == appendLogEvent(NewSession("S1"), StatusEvent("queued"))
       IN IF callSid = Null
          THEN callSessions = [s \in CreatedIds |-> created] /\ callSidToSessionId = <<>>
          ELSE /\ callSessions = [s \in CreatedIds |-> SessionWithCallSid(created, callSid)]
               /\ callSidToSessionId = IndexWithCallSid(<<>>, created, callSid)
  /\ sockets = [v \in ViewerIds |-> NewSocket]
  /\ drainTimers = {}
  /\ debugLog = {}
  /\ secretEnv \in {NoKey, WithKey}
  /\ minted = {}
  /\ lastVerify = [called |-> FALSE, sessionId |-> Null, token |-> <<>>,
                   atMs |-> 0, result |-> FALSE]
  /\ carrierEnv = NoCarrier
  /\ outbound = NoOutbound
  /\ bridge = NoBridge
  /\ twilioSocket = [NoBridgeSocket EXCEPT !.readyState = WS_OPEN]
  /\ realtimeSocket = NoBridgeSocket
  /\ wire = <<>>
  /\ pendingMedia = PendingBinding
  /\ summaryCache = <<>>
  /\ summaryCalls = <<>>
  /\ widgetState = NoWidgetState

NextBind ==
  \/ \E raw \in PendingInputs : onPendingStart(raw)
  \/ PendingSessionTimer
  \/ \E code \in CloseCodes \cup {1008} : PendingSocketClose(code)
  \/ PendingSocketError
  \/ RealtimeOpen
  \/ \E payload \in {TwilioStart, TwilioEvent("stop")} : TwilioMessage(payload)
  \/ \E code \in CloseCodes \cup {1008} : TwilioSocketClose(code)

SpecBind == InitBind /\ [][NextBind]_vars

\* summaries asked of one session while its transcript grows
SummaryTextInputs == {<<"F">>, <<" ">>}
SummaryOutcomeInputs == {"status", "body", "no_summary", "ok"}
InitSummary ==
  /\ nowMs = 0
  /\ callSessions = [s \in CreatedIds |-> appendLogEvent(NewSession(s), StatusEvent("queued"))]
  /\ sockets = [v \in ViewerIds |-> NewSocket]
  /\ drainTimers = {}
  /\ debugLog = {}
  /\ secretEnv \in {NoKey, WithKey}
  /\ minted = {}
  /\ lastVerify = [called |-> FALSE, sessionId |-> Null, token |-> <<>>,
                   atMs |-> 0, result |-> FALSE]
  /\ carrierEnv = NoCarrier
  /\ InitEdgeIdle
  /\ callSidToSessionId = <<>>
  /\ outbound = NoOutbound
  /\ InitBridgeIdle

NextSummary ==
  \/ Tick /\ nowMs < MaxSummaryTicks * ClockStepMs
  \/ \E s \in CreatedIds, t \in SummaryTextInputs :
       appendTranscriptFinal(s, "i1", "recipient", t, Null)
  \/ \E s \in SessionIds : getTwilioCallSummaryOutput(s)
  \/ \E n \in 1..MaxSummaryCalls, outcome \in SummaryOutcomeInputs :
       SummaryResponse(n, outcome)

SpecSummary == InitSummary /\ [][NextSummary]_vars

\* one viewer of a call: the frames of its log stream arrive in any order and
\* any number of times
WidgetFrames ==
  UNION { { [LogFrame("status", seq) EXCEPT !.status = "in-progress"],
            [LogFrame("status", seq) EXCEPT !.status = "completed"],
            [LogFrame("session.end", seq) EXCEPT !.reason = "hangup"],
            [LogFrame("transcript.delta", seq) EXCEPT
               !.itemId = "i1", !.speaker = "recipient", !.textDelta = <<"a">>, !.order = 1],
            [LogFrame("transcript.delta", seq) EXCEPT
               !.itemId = "i2", !.speaker = "assistant", !.textDelta = <<"a">>, !.order = 0],
            [LogFrame("transcript.final", seq) EXCEPT
               !.itemId = "i1", !.speaker = "recipient", !.fullText = <<"F">>],
            LogFrame("audio.level", seq) } : seq \in 1..MaxSeq }
InitWidget ==
  /\ callSessions = <<>>
  /\ sockets = [v \in ViewerIds |-> NewSocket]
  /\ drainTimers = {}
  /\ debugLog = {}
  /\ nowMs = 0
  /\ secretEnv = NoSecrets
  /\ minted = {}
  /\ lastVerify = [called |-> FALSE, sessionId |-> Null, token |-> <<>>,
                   atMs |-> 0, result |-> FALSE]
  /\ carrierEnv = NoCarrier
  /\ callSidToSessionId = <<>>
  /\ outbound = NoOutbound
  /\ InitBridgeIdle
  /\ pendingMedia = NoPendingMedia
  /\ summaryCache = <<>>
  /\ summaryCalls = <<>>
  /\ widgetState = [NoWidgetState EXCEPT !.sessionId = "S1", !.status = "queued"]

NextWidget ==
  \/ \E raw \in WidgetFrames : LogSocketMessage(raw)

SpecWidget == InitWidget /\ [][NextWidget]_vars

\* the audio of one bridge: the model speaks and the recipient interrupts
NextAudio ==
  \/ Tick /\ nowMs < MaxBridgeTicks * ClockStepMs
  \/ \E s \in CreatedIds : bridgeTwilioToRealtime(s, NoStart) /\ UNCHANGED edgeVars
  \/ RealtimeOpen
  \/ \E event \in RealtimeAudioEvents : RealtimeMessage(event)
  \/ \E payload \in TwilioAudioEvents : TwilioMessage(payload)

SpecAudio == InitBridge /\ [][NextAudio]_vars

\* audio frames of 12 bytes (1.5 ms) and of 6000 bytes (750 ms)
ShortFrame == [chars |-> 16, padding |-> 0, rms |-> 0]
LongFrame == [chars |-> 8000, padding |-> 0, rms |-> PCMU_MAX_ABS_SAMPLE]
TruncateEvents ==
  { AudioDelta("i1", 0, "r1", OneByte),
    AudioDelta("i1", 0, "r1", Malformed),
    AudioDelta("i1", 0, "r1", ShortFrame),
    AudioDelta("i1", 0, "r1", LongFrame),
    AudioDelta("i2", 0, "r1", OneByte),
    AudioDelta(Null, 0, Null, ShortFrame),
    RealtimeEvent("response.output_audio.done"),
    RealtimeEvent("input_audio_buffer.speech_started") }

\* a bridge about to start for a created session, the clock at a time after 0
InitTruncate ==
  /\ nowMs = ClockStepMs
  /\ callSessions = [s \in CreatedIds |-> appendLogEvent(NewSession(s), StatusEvent("queued"))]
  /\ sockets = [v \in ViewerIds |-> NewSocket]
  /\ drainTimers = {}
  /\ debugLog = {}
  /\ secretEnv = WithKey
  /\ minted = {}
  /\ lastVerify = [called |-> FALSE, sessionId |-> Null, token |-> <<>>,
                   atMs |-> 0, result |-> FALSE]
  /\ carrierEnv = NoCarrier
  /\ InitEdgeIdle
  /\ callSidToSessionId = <<>>
  /\ outbound = NoOutbound
  /\ bridge = NoBridge
  /\ twilioSocket = [NoBridgeSocket EXCEPT !.readyState = WS_OPEN]
  /\ realtimeSocket = NoBridgeSocket
  /\ wire = <<>>

\* the model speaks in frames of several lengths while the clock runs, and
\* the recipient interrupts
NextTruncate ==
  \/ Tick
  \/ \E s \in CreatedIds : bridgeTwilioToRealtime(s, TwilioStart) /\ UNCHANGED edgeVars
  \/ RealtimeOpen
  \/ \E event \in TruncateEvents : RealtimeMessage(event)

SpecTruncate == InitTruncate /\ [][NextTruncate]_vars

\* audio in both directions: the carrier's frames with two payloads and with
\* none, the model's deltas, a start with and without a stream id, and the
\* model socket opening and closing
MediaFrames ==
  { [TwilioEvent("media") EXCEPT !.payload = OneByte],
    [TwilioEvent("media") EXCEPT !.payload = ShortFrame],
    TwilioEvent("media") }
MediaDeltas == {AudioDelta("i1", 0, "r1", OneByte), AudioDelta(Null, 0, Null, ShortFrame)}

NextMedia ==
  \/ Tick /\ nowMs < MaxBridgeTicks * ClockStepMs
  \/ \E s \in CreatedIds, start \in {NoStart, TwilioStart} :
       bridgeTwilioToRealtime(s, start) /\ UNCHANGED edgeVars
  \/ RealtimeOpen
  \/ \E payload \in TwilioAudioEvents \cup MediaFrames : TwilioMessage(payload)
  \/ \E event \in MediaDeltas : RealtimeMessage(event)
  \/ \E code \in CloseCodes : RealtimeSocketClose(code, "")

SpecMedia == InitBridge /\ [][NextMedia]_vars

\* a call is transcribed while one viewer, connected from the start of the
\* log, receives its frames
ReplayTextInputs == {<<"F">>, <<>>}

NextReplay ==
  \/ \E s \in CreatedIds : createCallSession(s)
  \/ \E s \in CreatedIds : LogsUpgrade("v1", s, createViewerToken(s, 1), -1)
  \/ \E s \in CreatedIds, i \in ItemIds, sp \in Speakers :
       appendTranscriptDelta(s, i, sp, <<"a">>, Null)
  \/ \E s \in CreatedIds, i \in ItemIds, sp \in Speakers, t \in ReplayTextInputs :
       appendTranscriptFinal(s, i, sp, t, Null)
  \/ \E s \in CreatedIds : appendAudioLevel(s, "assistant", 1)
  \/ ViewerReceives("v1")

SpecReplay == InitStore /\ [][NextReplay]_vars

\* what the viewer endpoint is driven with
ViewerStatusInputs == {"in-progress", "completed"}
ViewerSessionParams == {Null, "S1", "S2"}
ViewerTokenParams == {<<>>} \cup {createViewerToken(s, 1) : s \in SessionIds}
SinceSeqParams == {-1, 1}

\* the store with viewers connecting, dropping and being drained
NextViewers ==
  \/ \E s \in CreatedIds : createCallSession(s)
  \/ \E s \in CreatedIds, status \in ViewerStatusInputs : updateCallStatus(s, status, Null)
  \/ \E s \in CreatedIds : appendTranscriptDelta(s, "i1", "recipient", <<"a">>, Null)
  \/ \E v \in ViewerIds, s \in ViewerSessionParams, t \in ViewerTokenParams,
        k \in SinceSeqParams : LogsUpgrade(v, s, t, k)
  \/ \E s \in SessionIds : DrainTimerFires(s)
  \/ \E v \in ViewerIds : CloseTimerFires(v)
  \/ \E v \in ViewerIds : SocketClosed(v)
  \/ \E v \in ViewerIds : PeerCloses(v)
  \/ \E v \in ViewerIds : SocketBreaks(v)

SpecViewers == InitStore /\ [][NextViewers]_vars

\* viewers of a call whose status changes; nothing is said in the call
NextRefusals ==
  \/ \E s \in CreatedIds : createCallSession(s)
  \/ \E s \in CreatedIds, status \in ViewerStatusInputs : updateCallStatus(s, status, Null)
  \/ \E v \in ViewerIds, s \in ViewerSessionParams, t \in ViewerTokenParams,
        k \in SinceSeqParams : LogsUpgrade(v, s, t, k)
  \/ \E s \in SessionIds : DrainTimerFires(s)
  \/ \E v \in ViewerIds : CloseTimerFires(v)
  \/ \E v \in ViewerIds : SocketClosed(v)
  \/ \E v \in ViewerIds : PeerCloses(v)
  \/ \E v \in ViewerIds : SocketBreaks(v)

SpecRefusals == InitStore /\ [][NextRefusals]_vars

\* the transcript of one call: three items, anchored on the first or on none
OrderItemIds == {"i1", "i2", "i3"}

NextOrder ==
  \/ \E s \in CreatedIds : createCallSession(s)
  \/ \E s \in CreatedIds, i \in OrderItemIds, p \in PreviousItemInputs :
       recordTranscriptOrder(s, i, p)
  \/ \E s \in CreatedIds, i \in OrderItemIds, d \in DeltaInputs, p \in PreviousItemInputs :
       appendTranscriptDelta(s, i, "assistant", d, p)
  \/ \E s \in CreatedIds, i \in OrderItemIds, p \in PreviousItemInputs :
       appendTranscriptFinal(s, i, "assistant", <<"F">>, p)

SpecOrder == InitStore /\ [][NextOrder]_vars

\* status updates of every kind, repeated ones and ones with a reason (absent,
\* empty or a text), while viewers of the call listen
StatusUpdateInputs == {"queued", "ringing", "in-progress", "completed"}
StatusReasonInputs == {Null, "", "hangup"}

NextStatus ==
  \/ \E s \in CreatedIds : createCallSession(s)
  \/ \E s \in CreatedIds, status \in StatusUpdateInputs, reason \in StatusReasonInputs :
       updateCallStatus(s, status, reason)
  \/ \E v \in ViewerIds, s \in CreatedIds :
       LogsUpgrade(v, s, createViewerToken(s, 1), -1)
  \/ \E s \in SessionIds : DrainTimerFires(s)
  \/ \E v \in ViewerIds : SocketBreaks(v)

SpecStatus == InitStore /\ [][NextStatus]_vars

\* timers fire and a close that the server started completes: the drain
\* timeout, the flush timeout and the 'close' event of a closing socket
FairViewers ==
  /\ \A s \in SessionIds : WF_vars(DrainTimerFires(s))
  /\ \A v \in ViewerIds : WF_vars(CloseTimerFires(v))
  /\ \A v \in ViewerIds : WF_vars(SocketClosed(v))

\* the viewers of one call: each connects with the token minted for it
NextDrain ==
  \/ \E s \in CreatedIds : createCallSession(s)
  \/ \E s \in CreatedIds, status \in ViewerStatusInputs : updateCallStatus(s, status, Null)
  \/ \E v \in ViewerIds, s \in CreatedIds, k \in SinceSeqParams :
       LogsUpgrade(v, s, createViewerToken(s, 1), k)
  \/ \E s \in SessionIds : DrainTimerFires(s)
  \/ \E v \in ViewerIds : CloseTimerFires(v)
  \/ \E v \in ViewerIds : SocketClosed(v)
  \/ \E v \in ViewerIds : PeerCloses(v)
  \/ \E v \in ViewerIds : SocketBreaks(v)

SpecViewersFair == InitStore /\ [][NextDrain]_vars /\ FairViewers

(***************************************************************************)
(* Properties                                                              *)
(***************************************************************************)
Sessions == DOMAIN callSessions
Appended(s) == callSessions[s].appendedEver
IsTerminal(s) == callSessions[s].status \in TERMINAL_STATUSES
EndIndexes(s) == {i \in DOMAIN Appended(s) : Appended(s)[i].type = "session.end"}

\* C1: in every session each appended event has a seq above every seq assigned
\* before it, evicted events included: in the history of appends and in the
\* retained log, an event comes earlier exactly when its seq is smaller
C1_SeqStrictlyMonotonic ==
  \A s \in Sessions :
    LET h == Appended(s)
        log == callSessions[s].logEvents
    IN /\ \A i, j \in DOMAIN h : (i < j) <=> (h[i].seq < h[j].seq)
       /\ \A i, j \in DOMAIN log : (i < j) <=> (log[i].seq < log[j].seq)
       /\ h # <<>> => h[Len(h)].seq = callSessions[s].seq

C1_Witness ==
  \E s \in Sessions :
    /\ Len(Appended(s)) >= 3
    /\ Len(callSessions[s].logEvents) < Len(Appended(s))

\* C2: once a session is completed or failed nothing more is appended: the last
\* event ever appended is the session.end of the terminal transition, and seq
\* is its seq
C2_NoAppendAfterTerminal ==
  \A s \in Sessions :
    IsTerminal(s) =>
      /\ Appended(s)[Len(Appended(s))].type = "session.end"
      /\ Cardinality(EndIndexes(s)) = 1

\* C3: an updateCallStatus call on a session that is completed or failed
\* changes neither the session (status, endedAt, terminalReason, seq, log),
\* nor what viewers were sent, nor the drain timer
C3_TerminalStatusIgnored ==
  [][\A s \in Sessions, status \in StatusInputs, reason \in ReasonInputs :
       (IsTerminal(s) /\ updateCallStatus(s, status, reason))
         => UNCHANGED <<callSessions, sockets, drainTimers>>]_vars

C3_Witness ==
  \E s \in Sessions :
    /\ IsTerminal(s)
    /\ IgnoredLine(s) \in debugLog

\* C4: a session gets at most one session.end; it directly follows, with the
\* next seq, a status event carrying a terminal status; once it is appended the
\* status is terminal for good, and endedAt is set exactly when the status is
\* completed or failed
C4_SingleSessionEnd ==
  \A s \in Sessions :
    LET h == Appended(s)
    IN /\ Cardinality(EndIndexes(s)) <= 1
       /\ \A i \in EndIndexes(s) :
            /\ i > 1
            /\ h[i - 1].type = "status"
            /\ h[i - 1].status \in TERMINAL_STATUSES
            /\ h[i].seq = h[i - 1].seq + 1
       /\ EndIndexes(s) # {} => IsTerminal(s)
       /\ (callSessions[s].endedAt # Null) <=> IsTerminal(s)

C4_Witness ==
  \E s \in Sessions :
    /\ EndIndexes(s) # {}
    /\ callSessions[s].status = "failed"
    /\ callSessions[s].terminalReason = "hangup"
    /\ IgnoredLine(s) \in debugLog

FinalizedItems(s) ==
  {e.itemId : e \in {Appended(s)[i] : i \in {j \in DOMAIN Appended(s) :
                                               Appended(s)[j].type = "transcript.final"}}}
LastEventOf(s, itemId) ==
  LET h == Appended(s)
      at == {i \in DOMAIN h : h[i].type \in {"transcript.delta", "transcript.final"}
                               /\ h[i].itemId = itemId}
  IN h[CHOOSE i \in at : \A j \in at : j <= i]

\* C5: when appendTranscriptFinal is the latest write of an item, the item's
\* text is the final's fullText and isFinal is true; and an item that was ever
\* finalized has isFinal true whatever was applied since
C5_FinalStaysFinal ==
  \A s \in Sessions :
    \A i \in DOMAIN callSessions[s].transcriptItems :
      LET item == callSessions[s].transcriptItems[i]
      IN /\ LastEventOf(s, i).type = "transcript.final"
              => item.text = LastEventOf(s, i).fullText /\ item.isFinal
         /\ i \in FinalizedItems(s) => item.isFinal

\* C6: a delta or final for (speaker, itemId) emits an event carrying that
\* speaker and leaves the text of every item of the other speaker as it was
C6_ItemKeyedBySpeakerAndId ==
  [][\A s \in Sessions, i \in ItemIds, sp \in Speakers, p \in PreviousItemInputs :
       /\ \A d \in DeltaInputs \ {<<>>} :
            appendTranscriptDelta(s, i, sp, d, p) =>
              /\ callSessions'[s].appendedEver[Len(callSessions'[s].appendedEver)].speaker = sp
              /\ \A j \in DOMAIN callSessions[s].transcriptItems :
                   callSessions[s].transcriptItems[j].speaker # sp =>
                     callSessions'[s].transcriptItems[j].text
                       = callSessions[s].transcriptItems[j].text
       /\ \A t \in FullTextInputs :
            appendTranscriptFinal(s, i, sp, t, p) =>
              /\ callSessions'[s].appendedEver[Len(callSessions'[s].appendedEver)].speaker = sp
              /\ \A j \in DOMAIN callSessions[s].transcriptItems :
                   callSessions[s].transcriptItems[j].speaker # sp =>
                     callSessions'[s].transcriptItems[j].text
                       = callSessions[s].transcriptItems[j].text]_vars

\* the log a session holds once its first n appends are done
RetainedAfter(h, n) == SubSeq(h, Max(1, n - MAX_LOG_EVENTS + 1), n)

\* C7: a viewer accepted with sinceSeq = k whose socket is still open has been
\* sent the events with seq > k retained at accept time, then every event
\* appended since, each once and in ascending seq; when the earliest event
\* retained at accept time has seq <= k + 1 none is skipped
C7_ViewerDelivery ==
  \A v \in ViewerIds :
    (sockets[v].accepted /\ sockets[v].readyState = 1) =>
      LET session == callSessions[sockets[v].sessionId]
          h == session.appendedEver
          n0 == sockets[v].appendedAtAccept
          k == sockets[v].sinceSeq
          atAccept == RetainedAfter(h, n0)
          sent == sockets[v].sent
      IN /\ v \in session.logSubscribers
         /\ sent = SelectSeq(atAccept, LAMBDA e : e.seq > k) \o SubSeq(h, n0 + 1, Len(h))
         /\ \A i, j \in DOMAIN sent : i < j => sent[i].seq < sent[j].seq
         /\ atAccept[1].seq <= k + 1 =>
              {sent[i].seq : i \in DOMAIN sent}
                = {n \in 1..session.seq : n > k \/ n > h[n0].seq}

C7_Witness ==
  \E v \in ViewerIds :
    /\ sockets[v].accepted
    /\ sockets[v].readyState = 1
    /\ sockets[v].sinceSeq = 1
    /\ sockets[v].catchUp # <<>>
    /\ Len(sockets[v].sent) > Len(sockets[v].catchUp)

\* C8: the log holds at most MAX_LOG_EVENTS events, the latest appended ones in
\* append order with the seq they were given; listLogEventsSince returns the
\* retained events above sinceSeq, all of the log for sinceSeq = 0
C8_LogRetention ==
  \A s \in Sessions :
    LET h == Appended(s)
        log == callSessions[s].logEvents
    IN /\ Len(log) = Min(MAX_LOG_EVENTS, Len(h))
       /\ log = SubSeq(h, Len(h) - Len(log) + 1, Len(h))
       /\ listLogEventsSince(s, 0) = log
       /\ \A k \in 0..MaxSeq :
            listLogEventsSince(s, k)
              = SubSeq(h, Max(k, Len(h) - MAX_LOG_EVENTS) + 1, Len(h))

C8_Witness ==
  \E s \in Sessions :
    /\ Len(Appended(s)) > MAX_LOG_EVENTS
    /\ Len(callSessions[s].logEvents) = MAX_LOG_EVENTS
    /\ callSessions[s].logEvents[1].seq = Len(Appended(s)) - MAX_LOG_EVENTS + 1

MintedFor(sessionId, token) ==
  {m \in minted : m.token = token /\ m.sessionId = sessionId}

\* C9: verifying a minted token for its own session returns true when the
\* clock (whole seconds) is before the token's exp and false from exp on
C9_ValidUntilExpiry ==
  lastVerify.called =>
    \A m \in MintedFor(lastVerify.sessionId, lastVerify.token) :
      lastVerify.result <=> (lastVerify.atMs \div 1000) < m.exp

C9_Witness ==
  /\ lastVerify.called
  /\ lastVerify.result
  /\ \E m \in MintedFor(lastVerify.sessionId, lastVerify.token) :
       /\ (lastVerify.atMs \div 1000) = m.exp - 1
       /\ lastVerify.atMs % 1000 # 0

\* C10: verifyViewerToken returns true only for a token that is exactly a
\* token minted for that session
C10_OnlyMintedTokensVerify ==
  (lastVerify.called /\ lastVerify.result) =>
    MintedFor(lastVerify.sessionId, lastVerify.token) # {}

\* a viewer request the endpoint must refuse: no session of that id, no token,
\* or a token that was not minted for the session named in the URL
InvalidRequest(sessionId, viewerToken) ==
  \/ sessionId \notin Sessions
  \/ viewerToken = <<>>
  \/ \A ttl \in 1..MaxTtl : viewerToken # createViewerToken(sessionId, ttl)
Refused(v) == sockets[v].readyState # 0 /\ ~sockets[v].accepted

\* C11: a viewer socket whose sessionId is unknown, whose viewerToken is missing
\* or whose token was not minted for the sessionId of the URL (a token minted
\* for another session included) is refused; a refused socket is closing or
\* closed with code 1008, is in no session's subscriber set and was sent no frame.
C11_InvalidViewerRejected ==
  /\ [][\A v \in ViewerIds, s \in ViewerSessionParams, t \in ViewerTokenParams,
           k \in SinceSeqParams :
          LogsUpgrade(v, s, t, k) /\ InvalidRequest(s, t) => Refused(v)']_vars
  /\ [](\A v \in ViewerIds :
          Refused(v) => /\ sockets[v].readyState \in {2, 3}
                        /\ sockets[v].closing = "close"
                        /\ sockets[v].closeCode = 1008
                        /\ sockets[v].sent = <<>>
                        /\ \A s \in Sessions : v \notin callSessions[s].logSubscribers)
\* a refused viewer while the session it named has events and an accepted viewer
C11_Witness ==
  \E v, w \in ViewerIds :
    /\ Refused(v) /\ sockets[v].readyState = 3
    /\ sockets[w].accepted /\ sockets[w].sent # <<>>
    /\ "S1" \in Sessions /\ Len(Appended("S1")) >= 3

SubscribedOpen(v, s) ==
  /\ s \in Sessions
  /\ v \in callSessions[s].logSubscribers
  /\ sockets[v].readyState = 1
BecomesTerminal(s) ==
  ~Truthy(callSessions[s].endedAt) /\ Truthy(callSessions'[s].endedAt)
\* the socket is closed and unsubscribed; a close the server made carries 1000
DrainedAway(v, s) ==
  /\ s \in Sessions
  /\ sockets[v].readyState = 3
  /\ v \notin callSessions[s].logSubscribers
  /\ sockets[v].closing = "close" => sockets[v].closeCode = 1000

\* C12: in the step that ends a session every subscriber with an open, working
\* socket is sent the terminal status event and then session.end while its
\* socket is still open; every viewer subscribed with an open socket to an
\* ended session is eventually closed and out of the subscriber set, with
\* code 1000 when the server closed it.
C12_TerminalDrain ==
  /\ [][\A s \in Sessions, v \in ViewerIds :
          BecomesTerminal(s) /\ SubscribedOpen(v, s) /\ ~sockets[v].sendThrows
          => LET sent == sockets'[v].sent
                 n == Len(sent)
             IN /\ n = Len(sockets[v].sent) + 2
                /\ sent[n - 1].type = "status"
                /\ sent[n - 1].status = callSessions'[s].status
                /\ sent[n - 1].status \in TERMINAL_STATUSES
                /\ sent[n].type = "session.end"
                /\ sockets'[v].readyState = 1
                /\ s \in drainTimers']_vars
  /\ \A s \in SessionIds, v \in ViewerIds :
       (SubscribedOpen(v, s) /\ Truthy(callSessions[s].endedAt)) ~> DrainedAway(v, s)
\* a viewer that saw the session end was closed with 1000 by the drain
C12_Witness ==
  \E v \in ViewerIds :
    /\ sockets[v].accepted
    /\ sockets[v].appendedAtAccept < Len(Appended("S1"))
    /\ sockets[v].sent # <<>>
    /\ sockets[v].sent[Len(sockets[v].sent)].type = "session.end"
    /\ sockets[v].closing = "close" /\ sockets[v].closeCode = 1000
    /\ ~sockets[v].closeTimer
    /\ DrainedAway(v, "S1")

\* viewer v was accepted when its session had already ended
ConnectedAfterEnd(v) ==
  /\ sockets[v].accepted
  /\ \E i \in EndIndexes(sockets[v].sessionId) : i <= sockets[v].appendedAtAccept

\* C13: a viewer accepted on a session that has already ended was first sent
\* the retained events with seq > sinceSeq in log order, a close the server
\* makes on it carries 1000, and it is eventually closed and unsubscribed,
\* whether the session's drain ran before or after it connected.
C13_LateViewerClosed ==
  /\ [](\A v \in ViewerIds :
          ConnectedAfterEnd(v) =>
            LET h == Appended(sockets[v].sessionId)
                atAccept == RetainedAfter(h, sockets[v].appendedAtAccept)
                catchUp == SelectSeq(atAccept, LAMBDA e : e.seq > sockets[v].sinceSeq)
            IN /\ SubSeq(sockets[v].sent, 1, Len(catchUp)) = catchUp
               /\ Len(sockets[v].sent) >= Len(catchUp)
               /\ \A i, j \in DOMAIN catchUp : i < j => catchUp[i].seq < catchUp[j].seq
               /\ sockets[v].readyState = 1 => sockets[v].closeTimer
               /\ sockets[v].closing = "close" => sockets[v].closeCode = 1000)
  /\ \A v \in ViewerIds :
       ConnectedAfterEnd(v) ~> /\ sockets[v].accepted
                               /\ sockets[v].readyState = 3
                               /\ v \notin callSessions[sockets[v].sessionId].logSubscribers
                               /\ sockets[v].closing = "close" => sockets[v].closeCode = 1000
\* a viewer that connected after the drain had run, its catch-up sent and its
\* flush timeout pending
C13_Witness ==
  \E v \in ViewerIds :
    /\ ConnectedAfterEnd(v)
    /\ sockets[v].readyState = 1
    /\ sockets[v].sessionId \notin drainTimers
    /\ sockets[v].sinceSeq = 1
    /\ Len(sockets[v].catchUp) >= 2
    /\ sockets[v].sent = sockets[v].catchUp

\* the events a step appends to session s
NewlyAppended(s) == SubSeq(Appended(s)', Len(Appended(s)) + 1, Len(Appended(s)'))
FailedWrite(v) == sockets[v].readyState # 1 /\ sockets[v].closing = "terminate"

\* C14: in a step that appends to a session, a subscriber whose write fails is
\* terminated and sent nothing, every other open subscriber is sent each new
\* event, and the events are in the log; a terminated subscriber is eventually
\* out of the subscriber set, once its socket's 'close' event is handled.
C14_FailingWriteIsolated ==
  /\ [][\A s \in Sessions :
          NewlyAppended(s) # <<>> =>
            /\ callSessions'[s].logEvents[Len(callSessions'[s].logEvents)]
                 = Appended(s)'[Len(Appended(s)')]
            /\ \A v \in ViewerIds :
                 SubscribedOpen(v, s) =>
                   IF sockets[v].sendThrows
                   THEN /\ sockets'[v].readyState = 2
                        /\ sockets'[v].closing = "terminate"
                        /\ sockets'[v].sent = sockets[v].sent
                   ELSE /\ sockets'[v].sent = sockets[v].sent \o NewlyAppended(s)
                        /\ sockets'[v].readyState = 1]_vars
  /\ \A v \in ViewerIds :
       FailedWrite(v) ~> /\ sockets[v].accepted
                         /\ sockets[v].readyState = 3
                         /\ v \notin callSessions[sockets[v].sessionId].logSubscribers
\* one subscriber was terminated on a failed write and is unsubscribed, the
\* other was sent the event of that broadcast
C14_Witness ==
  \E v, w \in ViewerIds :
    /\ FailedWrite(v) /\ sockets[v].readyState = 3 /\ sockets[v].sendThrows
    /\ ~Truthy(callSessions[sockets[v].sessionId].endedAt)
    /\ v \notin callSessions[sockets[v].sessionId].logSubscribers
    /\ sockets[w].accepted /\ sockets[w].readyState = 1
    /\ sockets[w].sessionId = sockets[v].sessionId
    /\ sockets[w].appendedAtAccept <= sockets[v].appendedAtAccept
    /\ sockets[w].sinceSeq = sockets[v].sinceSeq
    /\ Len(sockets[w].sent) > Len(sockets[v].sent)
    /\ sockets[w].sent[Len(sockets[w].sent)]
         = Appended(sockets[w].sessionId)[Len(Appended(sockets[w].sessionId))]

Blank(value) == value \in {Null, "", " "}
\* the account id, the auth secret or the caller number is not set, or the
\* carrier SDK does not load
CarrierUnavailable ==
  \/ Blank(carrierEnv.TWILIO_ACCOUNT_SID)
  \/ Blank(secretEnv.TWILIO_AUTH_TOKEN)
  \/ Blank(carrierEnv.TWILIO_FROM_NUMBER)
  \/ ~carrierEnv.sdkInstalled
Results == DOMAIN outbound.results

\* C15: without carrier configuration or SDK, startTwilioOutboundCall requests
\* no carrier call and returns status failed with an errorMessage, the session
\* id and a token minted for the session that verifies until it expires; the
\* session is failed with that message as terminalReason, and the call-status
\* output says so in every later state.
C15_StartFailsWithoutCarrier ==
  /\ [][\A s \in CreatedIds :
          StartCall(s) /\ CarrierUnavailable =>
            /\ s \in Results'
            /\ outbound'.requests = outbound.requests
            /\ outbound'.awaiting = outbound.awaiting]_vars
  /\ [](CarrierUnavailable =>
          /\ outbound.requests = <<>>
          /\ \A s \in Results :
               LET result == outbound.results[s]
                   output == getTwilioCallStatusOutput(s)
               IN /\ result.sessionId = s
                  /\ result.status = "failed"
                  /\ result.errorMessage \in {ConfigError, SdkError}
                  /\ \E m \in minted :
                       /\ m.token = result.viewerToken /\ m.sessionId = s
                       /\ nowMs \div 1000 < m.exp => verifyViewerToken(s, result.viewerToken)
                  /\ Known(s)
                  /\ output.status = "failed"
                  /\ output.terminalReason = result.errorMessage)
\* a start failed for lack of configuration, and a later status callback for
\* the session changed nothing
C15_Witness ==
  /\ CarrierUnavailable
  /\ "S1" \in Results
  /\ outbound.results["S1"].errorMessage = ConfigError
  /\ IgnoredLine("S1") \in debugLog
  /\ verifyViewerToken("S1", outbound.results["S1"].viewerToken)
  /\ nowMs > 0

\* the canonical mapping, on the carrier's own status texts
CanonicalStatus(carrierStatus) ==
  CASE carrierStatus = "ringing" -> "ringing"
    [] carrierStatus \in {"in-progress", "answered"} -> "in-progress"
    [] carrierStatus \in {"queued", "initiated", "scheduled"} -> "queued"
    [] carrierStatus = "completed" -> "completed"
    [] OTHER -> "failed"

\* C16: when calls.create resolves, the session holds the returned call id, its
\* status is the canonical mapping of the carrier's initial status, and the
\* status of the CallStartResult equals the session's status.
C16_StartResultMatchesSession ==
  [][\A p \in outbound.awaiting, sid \in CallSidInputs,
        cs \in CarrierStatusInputs \ {"RINGING"} :
       CreateCallReturns(p, sid, cs) =>
         LET s == p.sessionId
         IN /\ Truthy(sid) => callSessions'[s].callSid = sid
            /\ callSessions'[s].status = CanonicalStatus(cs)
            /\ outbound'.results[s].status = callSessions'[s].status]_vars

\* C28: when OPENAI_API_KEY is not configured, startTwilioOutboundCall asks
\* the carrier for no call, leaves the session failed and returns status
\* failed with an errorMessage.
C28_StartFailsWithoutModelKey ==
  [][\A s \in CreatedIds :
       (StartCall(s) /\ ~Truthy(EnvText(secretEnv.OPENAI_API_KEY))) =>
         /\ outbound'.requests = outbound.requests
         /\ outbound'.awaiting = outbound.awaiting
         /\ s \in Results'
         /\ outbound'.results[s].status = "failed"
         /\ Truthy(outbound'.results[s].errorMessage)
         /\ callSessions'[s].status = "failed"]_vars


(***************************************************************************)
(* The bridge's sockets                                                    *)
(***************************************************************************)
BridgeLive == bridge.started /\ Known(bridge.sessionId) /\ ~IsTerminal(bridge.sessionId)
BeingClosed(socket) == socket.readyState \in {WS_CLOSING, WS_CLOSED}
CarrierCloses == twilioSocket.readyState # WS_CLOSED /\ twilioSocket'.readyState = WS_CLOSED
CarrierErrors == twilioSocket.closing # "error" /\ twilioSocket'.closing = "error"
ModelErrors == realtimeSocket.closing # "error" /\ realtimeSocket'.closing = "error"

\* C17: when the carrier's media socket closes while the bridge's session is
\* not terminal, the model's socket is closed by the same step; a close code
\* other than 1000 leaves the session failed with a terminal reason, and code
\* 1000 leaves the session as it was.
C17_CarrierCloseMarksFailed ==
  [][ (BridgeLive /\ CarrierCloses) =>
        /\ BeingClosed(realtimeSocket')
        /\ IF twilioSocket'.closedWith # 1000
           THEN /\ callSessions'[bridge.sessionId].status = "failed"
                /\ Truthy(callSessions'[bridge.sessionId].terminalReason)
           ELSE callSessions' = callSessions ]_vars

\* C18: when the carrier's socket or the model's socket emits 'error' while
\* the bridge's session is not terminal, the step leaves the session failed
\* and the other socket closed or closing.
C18_SocketErrorMarksFailed ==
  [][ /\ (BridgeLive /\ ModelErrors) =>
           /\ callSessions'[bridge.sessionId].status = "failed"
           /\ BeingClosed(twilioSocket')
      /\ (BridgeLive /\ CarrierErrors) =>
           /\ callSessions'[bridge.sessionId].status = "failed"
           /\ BeingClosed(realtimeSocket') ]_vars

\* the bridge has begun to close: the carrier stopped the stream, or one of
\* the sockets closed or failed
BridgeClosing ==
  /\ bridge.started
  /\ \/ bridge.twilioStopped
     \/ realtimeSocket.readyState = WS_CLOSED
     \/ realtimeSocket.closing = "error"
     \/ twilioSocket.readyState = WS_CLOSED
     \/ twilioSocket.closing = "error"
BridgeClosed ==
  /\ twilioSocket.readyState = WS_CLOSED
  /\ realtimeSocket.readyState = WS_CLOSED
  /\ Known(bridge.sessionId) /\ IsTerminal(bridge.sessionId)

\* C19: once the carrier has stopped the stream, or either socket has closed
\* or failed, the bridge reaches a state in which both sockets are closed and
\* the session is completed or failed; no status callback is delivered.
C19_BridgeClosesTerminal == BridgeClosing ~> BridgeClosed


(***************************************************************************)
(* Interruption of the assistant's audio                                   *)
(***************************************************************************)
SpeechStarted == RealtimeMessage(RealtimeEvent("input_audio_buffer.speech_started"))

\* the carrier was sent audio of an assistant item, neither
\* response.output_audio.done nor response.done nor an interruption came
\* since, and both sockets are open
AssistantAudioActive ==
  /\ bridge.started
  /\ bridge.forwarded.audio /\ Truthy(bridge.forwarded.item)
  /\ twilioSocket.readyState = WS_OPEN
  /\ realtimeSocket.readyState = WS_OPEN

TrackingCleared(b) ==
  /\ b.activeResponseId = Null
  /\ b.activeAssistantItemId = Null
  /\ b.activeAssistantContentIndex = 0
  /\ b.activeAssistantAudioMsSent = 0
  /\ b.activeAssistantAudioStartedAtMs = 0
  /\ ~b.assistantOutputActive

\* C20: when input_audio_buffer.speech_started arrives while assistant audio
\* is active, the handler writes exactly three frames, in this order: a clear
\* of the active stream to the carrier, a response.cancel to the model, and a
\* conversation.item.truncate to the model that carries the item id and the
\* content index of the audio that was forwarded; after it the active
\* response and the active item are no longer tracked.
C20_SpeechStartedInterrupts ==
  [][ (AssistantAudioActive /\ SpeechStarted) =>
        /\ Len(wire') = 3
        /\ wire'[1].to = "twilio" /\ wire'[1].type = "clear"
        /\ wire'[1].streamSid = bridge.twilioStreamSid /\ Truthy(bridge.twilioStreamSid)
        /\ wire'[2].to = "realtime" /\ wire'[2].type = "response.cancel"
        /\ wire'[3].to = "realtime" /\ wire'[3].type = "conversation.item.truncate"
        /\ wire'[3].item_id = bridge.forwarded.item
        /\ wire'[3].content_index = bridge.forwarded.index
        /\ TrackingCleared(bridge') ]_vars

\* an interruption of item i1, content index 1, has just been written
C20_Witness ==
  /\ Len(wire) = 3
  /\ wire[1].type = "clear" /\ wire[2].type = "response.cancel"
  /\ wire[3].type = "conversation.item.truncate"
  /\ wire[3].item_id = "i1" /\ wire[3].content_index = 1
  /\ TrackingCleared(bridge)
  /\ bridge.forwarded = NoForward


\* the closure variables of the bridge, without the history of forwarded audio
CodeState(b) == [b EXCEPT !.forwarded = NoForward]

\* C21: a speech_started event that finds no assistant output active writes
\* no frame and leaves the bridge as it was; every speech_started event leaves
\* no assistant output active, and only an audio delta makes it active again,
\* so a second speech_started with no audio delta in between writes nothing.
C21_IdleSpeechStartedIsNoOp ==
  [][ /\ SpeechStarted =>
           /\ ~bridge.assistantOutputActive =>
                (wire' = <<>> /\ CodeState(bridge') = CodeState(bridge))
           /\ ~bridge'.assistantOutputActive
      /\ (~bridge.assistantOutputActive /\ bridge'.assistantOutputActive) =>
           \E event \in DeltaEvents : RealtimeMessage(event) ]_vars

\* after an interruption, with the stream known and both sockets open, a
\* handler has run that wrote nothing and no assistant output is active
C21_Witness ==
  /\ bridge.interruptControlEventCounter > 0
  /\ Truthy(bridge.twilioStreamSid)
  /\ twilioSocket.readyState = WS_OPEN /\ realtimeSocket.readyState = WS_OPEN
  /\ ~bridge.assistantOutputActive
  /\ wire = <<>>


(***************************************************************************)
(* Errors reported by the model                                            *)
(***************************************************************************)
\* an error event that answers one of the bridge's interruption control
\* events, by its event id, by its code, or by its message
AnswersInterrupt(event) ==
  /\ event.type = "error"
  /\ \/ event.errorEventId # <<>>
        /\ event.errorEventId \in bridge.pendingInterruptControlEventIds
     \/ event.errorCode \in {"response_cancel_not_active", "conversation_item_not_found",
                             "conversation_item_already_completed"}
     \/ event.errorMessage # Null /\ NamesControlEvent(ToLowerCase(event.errorMessage))

\* C22: an error event of the model that answers an interruption control
\* event, arriving on a bridge whose session is not terminal, leaves the
\* session's status and the carrier's socket as they were.
C22_InterruptErrorsRecoverable ==
  [][ \A event \in RealtimeAudioEvents :
        (BridgeLive /\ AnswersInterrupt(event) /\ RealtimeMessage(event)) =>
          /\ callSessions'[bridge.sessionId].status = callSessions[bridge.sessionId].status
          /\ twilioSocket' = twilioSocket ]_vars


(***************************************************************************)
(* A media socket waiting for its session                                  *)
(***************************************************************************)
\* the bind timer closes a socket that no start message has bound, touching
\* no session and starting no bridge
TimerClosesUnbound ==
  [][ (PendingSessionTimer /\ ~pendingMedia.bridgeStarted) =>
        /\ twilioSocket'.readyState # WS_OPEN
        /\ twilioSocket.readyState = WS_OPEN => twilioSocket'.closeCode = 1008
        /\ UNCHANGED <<callSessions, bridge>> ]_vars
\* a start message that binds the socket starts its only bridge and disarms
\* the timer
BoundOnce ==
  [](/\ pendingMedia.bridges <= 1
     /\ pendingMedia.bridgeStarted => ~pendingMedia.timer)

\* C23: the bind timer of a media socket accepted without a session closes
\* the socket with code 1008 when no start message has bound it, and from
\* then on no bridge is started for the socket and no session changes; a
\* start message that binds the socket first starts exactly one bridge and
\* the timer never closes the socket.
C23_BindTimeout ==
  /\ TimerClosesUnbound
  /\ BoundOnce
  /\ [](pendingMedia.timedOut => (bridge = NoBridge /\ pendingMedia.bridges = 0))
  /\ [][pendingMedia.timedOut => callSessions' = callSessions]_vars


(***************************************************************************)
(* Audio levels                                                            *)
(***************************************************************************)
\* frames of every loudness, the empty and the malformed payload included
SampledFrames ==
  {NoAudio, Malformed}
    \cup { [OneByte EXCEPT !.rms = rms] :
           rms \in {0, 1, 9448, 9449, PCMU_MAX_ABS_SAMPLE, PCMU_MAX_ABS_SAMPLE + 1} }

\* C24: every audio.level event ever appended to a session carries a level
\* between 0 and 1 (LevelUnit units), whatever level appendAudioLevel was
\* given, and the level the bridge computes of a frame it samples lies in the
\* same range.
C24_LevelsWithinUnit ==
  /\ \A s \in Sessions : \A i \in DOMAIN Appended(s) :
       Appended(s)[i].type = "audio.level" =>
         (0 <= Appended(s)[i].level /\ Appended(s)[i].level <= LevelUnit)
  /\ \A frame \in SampledFrames :
       estimatePcmuLevel(frame) # -1 =>
         (0 <= estimatePcmuLevel(frame) /\ estimatePcmuLevel(frame) <= LevelUnit)

\* a level below 0 and a level above 1 were given and stored
C24_Witness ==
  \E s \in Sessions : \E i, j \in DOMAIN Appended(s) :
    /\ Appended(s)[i].type = "audio.level" /\ Appended(s)[i].level = 0
    /\ Appended(s)[j].type = "audio.level" /\ Appended(s)[j].level = LevelUnit


(***************************************************************************)
(* The call summary                                                        *)
(***************************************************************************)
\* the call of session s that began last
PreviousCall(s) ==
  LET own == {n \in DOMAIN summaryCalls : summaryCalls[n].sessionId = s}
  IN IF own = {} THEN NoCall
     ELSE summaryCalls[CHOOSE n \in own : \A m \in own : m <= n]
LatestCall == summaryCalls[Len(summaryCalls)]

\* C25: a summary call that follows a returned call of the same session
\* returns that call's result unchanged, from the cache and without a remote
\* request, when no event was appended to the session since the earlier call
\* read it; when an event was appended it computes a new result.
C25_SummaryCached ==
  [][ \A s \in CreatedIds :
        (getTwilioCallSummaryOutput(s) /\ PreviousCall(s).state = "returned") =>
          IF PreviousCall(s).lastSeq = callSessions[s].seq
          THEN /\ LatestCall'.state = "returned"
               /\ LatestCall'.result = PreviousCall(s).result
               /\ LatestCall'.hit /\ ~LatestCall'.requested
               /\ summaryCache' = summaryCache
          ELSE /\ ~LatestCall'.hit
               /\ LatestCall'.lastSeq = callSessions[s].seq
               /\ LatestCall'.state = "returned" =>
                    LatestCall'.result.generatedAt = nowIso ]_vars


\* the ways the remote summary request fails
RemoteFailures == RemoteOutcomes \ {"ok", "no_lists"}

\* C26: whenever the remote summary request of a call fails, the call returns
\* a result, the heuristic summary with source heuristic, and raises nothing.
C26_RemoteFailureFallsBack ==
  [][ \A n \in DOMAIN summaryCalls : \A outcome \in RemoteFailures :
        SummaryResponse(n, outcome) =>
          /\ summaryCalls'[n].state = "returned"
          /\ summaryCalls'[n].result.source = "heuristic"
          /\ summaryCalls'[n].result.summary = "heuristic" ]_vars


(***************************************************************************)
(* Frames the bridge does not understand                                   *)
(***************************************************************************)
\* frames that are not JSON, that name no event, or that name an event the
\* bridge has no branch for
BadCarrierFrames == {raw \in TwilioLifeEvents :
                       ~raw.parses \/ raw.event \notin {"start", "media", "stop"}}
BadModelFrames == {raw \in RealtimeLifeEvents :
                     ~raw.parses \/ raw.type \notin {"error", "session.updated"}}
EndsSession == BridgeLive /\ callSessions'[bridge.sessionId].status \in TERMINAL_STATUSES

\* C27: a frame of the carrier or of the model that is not JSON, names no
\* event or names an unknown event leaves every session and both sockets of
\* the bridge as they were; a frame that ends the session is a stop event of
\* the carrier or an error event of the model.
C27_BadFramesIgnored ==
  [][ /\ \A raw \in BadCarrierFrames :
           TwilioMessage(raw) => UNCHANGED <<callSessions, twilioSocket, realtimeSocket>>
      /\ \A raw \in BadModelFrames :
           RealtimeMessage(raw) => UNCHANGED <<callSessions, twilioSocket, realtimeSocket>>
      /\ \A raw \in TwilioLifeEvents :
           (TwilioMessage(raw) /\ EndsSession) => (raw.parses /\ raw.event = "stop")
      /\ \A raw \in RealtimeLifeEvents :
           (RealtimeMessage(raw) /\ EndsSession) => (raw.parses /\ raw.type = "error") ]_vars

\* a bridge at work, where such frames are delivered and handled
C27_Witness ==
  /\ BridgeLive /\ bridge.twilioStartHandled
  /\ twilioSocket.readyState = WS_OPEN /\ realtimeSocket.readyState = WS_OPEN
  /\ callSessions[bridge.sessionId].status = "in-progress"
  /\ wire = <<>>


(***************************************************************************)
(* The viewer's reducer                                                    *)
(***************************************************************************)
\* C29: a frame of the log stream whose seq is not above the viewer's lastSeq
\* leaves the viewer's state as it was, a frame the reducer applies sets
\* lastSeq to its seq, and lastSeq never decreases.
C29_ReducerDedups ==
  /\ [][\A raw \in WidgetFrames :
          LogSocketMessage(raw) =>
            /\ raw.seq <= widgetState.lastSeq => widgetState' = widgetState
            /\ widgetState'.lastSeq \in {widgetState.lastSeq, raw.seq}]_vars
  /\ [][widgetState'.lastSeq >= widgetState.lastSeq]_vars

\* events were applied, so that frames already seen can be delivered again
C29_Witness ==
  /\ widgetState.lastSeq = MaxSeq
  /\ Len(widgetState.transcript) = 2
  /\ widgetState.status = "completed"


(***************************************************************************)
(* The order of subscribing and catching up                                *)
(***************************************************************************)
\* C30 as stated: no accepted viewer was in its session's subscriber set
\* when its catch-up window was computed.
C30_CatchUpBeforeSubscribe ==
  \A v \in ViewerIds : sockets[v].accepted => ~sockets[v].subscribedAtCatchUp

\* C30: the handler that accepts a viewer adds it to the subscriber set and
\* then computes its catch-up window in the same step, no event being appended
\* in between: the viewer is a subscriber when the window is computed, the
\* window is the retained events above sinceSeq, and it is what the viewer is
\* sent.
C30_SubscribeAndCatchUpInOneStep ==
  [][\A v \in ViewerIds, s \in ViewerSessionParams, t \in ViewerTokenParams,
        k \in SinceSeqParams :
       (LogsUpgrade(v, s, t, k) /\ sockets'[v].accepted) =>
         /\ sockets'[v].subscribedAtCatchUp
         /\ v \in callSessions'[s].logSubscribers
         /\ callSessions'[s].logEvents = callSessions[s].logEvents
         /\ sockets'[v].catchUp =
              SelectSeq(callSessions[s].logEvents,
                        LAMBDA event : event.seq > parsePositiveInt(k))
         /\ sockets'[v].sent = sockets[v].sent \o sockets'[v].catchUp]_vars

\* a viewer accepted with a sinceSeq that leaves out part of the log
C30_Witness ==
  \E v \in ViewerIds :
    /\ sockets[v].accepted /\ sockets[v].subscribedAtCatchUp
    /\ sockets[v].sinceSeq > 0
    /\ sockets[v].catchUp # <<>>
    /\ v \in callSessions[sockets[v].sessionId].logSubscribers

(***************************************************************************)
(* Status events                                                           *)
(***************************************************************************)
StatusEventsIn(events) == SelectSeq(events, LAMBDA event : event.type = "status")

\* C31: updateCallStatus on a session that has not ended appends a status
\* event exactly when the status differs from the current one or a non-empty
\* reason is given; the event carries the new status and the next seq.  With
\* the same status and no reason, seq, the log and every socket are unchanged.
C31_StatusEventOnChangeOrReason ==
  [][\A s \in CreatedIds, status \in StatusUpdateInputs, reason \in StatusReasonInputs :
       (/\ Known(s)
        /\ ~Truthy(callSessions[s].endedAt)
        /\ updateCallStatus(s, status, reason)) =>
         IF status # callSessions[s].status \/ (reason # Null /\ reason # "")
         THEN /\ StatusEventsIn(NewlyAppended(s))
                   = <<[type |-> "status", seq |-> callSessions[s].seq + 1,
                        status |-> status]>>
              /\ NewlyAppended(s)[1].type = "status"
              /\ callSessions'[s].seq > callSessions[s].seq
         ELSE /\ NewlyAppended(s) = <<>>
              /\ callSessions'[s].seq = callSessions[s].seq
              /\ callSessions'[s].logEvents = callSessions[s].logEvents
              /\ sockets' = sockets]_vars

\* a status event was appended and sent for an unchanged status because a
\* reason came with it; the session has not ended
C31_Witness ==
  \E s \in Sessions, v \in ViewerIds :
    /\ ~Truthy(callSessions[s].endedAt)
    /\ \E i \in DOMAIN Appended(s) :
         /\ i > 1
         /\ Appended(s)[i].type = "status" /\ Appended(s)[i - 1].type = "status"
         /\ Appended(s)[i].status = Appended(s)[i - 1].status
         /\ Includes(sockets[v].sent, Appended(s)[i])

(***************************************************************************)
(* The display order of the transcript                                     *)
(***************************************************************************)
NoDuplicates(seq) == \A i, j \in DOMAIN seq : seq[i] = seq[j] => i = j
\* seq with the element x taken out
Without(seq, x) == SelectSeq(seq, LAMBDA y : y # x)
OrderOf(s) == callSessions[s].transcriptOrder

\* what a step that places itemId relative to previousItemId does to the order
Placed(s, itemId, previousItemId) ==
  IF Includes(OrderOf(s), itemId)
  THEN OrderOf(s)' = OrderOf(s)
  ELSE /\ Len(OrderOf(s)') = Len(OrderOf(s)) + 1
       /\ Without(OrderOf(s)', itemId) = OrderOf(s)
       /\ IF previousItemId # Null /\ Includes(OrderOf(s), previousItemId)
          THEN \E k \in DOMAIN OrderOf(s) :
                 /\ OrderOf(s)[k] = previousItemId
                 /\ OrderOf(s)'[k] = previousItemId
                 /\ OrderOf(s)'[k + 1] = itemId
          ELSE OrderOf(s)'[Len(OrderOf(s)')] = itemId

\* C36: transcriptOrder holds no itemId twice and only grows, the itemIds
\* already present keeping their relative order.  recordTranscriptOrder, a
\* delta with text and a final put an itemId that is not present right after
\* previousItemId when that anchor is present and at the end otherwise, and
\* leave the order alone when the itemId is present.
C36_TranscriptOrderGrows ==
  /\ [](\A s \in Sessions : NoDuplicates(OrderOf(s)))
  /\ [][\A s \in Sessions :
          /\ Len(OrderOf(s)') >= Len(OrderOf(s))
          /\ \A i, j \in DOMAIN OrderOf(s) :
               i < j => IndexOf(OrderOf(s)', OrderOf(s)[i]) >= 0
                        /\ IndexOf(OrderOf(s)', OrderOf(s)[i])
                             < IndexOf(OrderOf(s)', OrderOf(s)[j])]_vars
  /\ [][\A s \in Sessions, i \in OrderItemIds, p \in PreviousItemInputs :
          /\ recordTranscriptOrder(s, i, p) => Placed(s, i, p)
          /\ appendTranscriptDelta(s, i, "assistant", <<"a">>, p) => Placed(s, i, p)
          /\ appendTranscriptFinal(s, i, "assistant", <<"F">>, p) => Placed(s, i, p)]_vars

\* i3 was written while second in the order; i2 was then inserted after the
\* anchor i1, in front of it, and written
C36_Witness ==
  \E s \in Sessions :
    /\ OrderOf(s) = <<"i1", "i2", "i3">>
    /\ "i3" \in DOMAIN callSessions[s].transcriptItems
    /\ "i2" \in DOMAIN callSessions[s].transcriptItems
    /\ callSessions[s].transcriptItems["i3"].order = 1
    /\ callSessions[s].transcriptItems["i3"].seq < callSessions[s].transcriptItems["i2"].seq

\* C37: each transcript item's order is its index in transcriptOrder, and
\* getCallSessionSummary lists the items in the order of transcriptOrder.
C37_OrderIsIndex ==
  \A s \in Sessions :
    /\ \A i \in DOMAIN callSessions[s].transcriptItems :
         callSessions[s].transcriptItems[i].order = IndexOf(OrderOf(s), i)
    /\ [k \in DOMAIN getCallSessionSummary(s).transcript |->
          getCallSessionSummary(s).transcript[k].itemId]
         = SelectSeq(OrderOf(s), LAMBDA i : i \in DOMAIN callSessions[s].transcriptItems)

(***************************************************************************)
(* The carrier's stop message                                              *)
(***************************************************************************)
StopFrames == {e \in TwilioLifeEvents : e.parses /\ e.event = "stop"}
CarrierReason(e) ==
  IF e.reason # Null THEN e.reason
  ELSE IF e.callStatus # Null THEN e.callStatus
  ELSE "Twilio media stream stopped"

\* C32: a carrier stop marks a session that has not ended completed, with the
\* carrier's reason, leaves an ended session as it is, and starts the close
\* of the model socket (code 1000 when it was open).  Once the carrier has
\* stopped, the model socket's close event, whatever its code, changes no
\* session.
C32_StopCompletesSession ==
  /\ [][\A e \in StopFrames :
          TwilioMessage(e) =>
            /\ IF Truthy(callSessions[bridge.sessionId].endedAt)
               THEN callSessions' = callSessions
               ELSE /\ callSessions'[bridge.sessionId].status = "completed"
                    /\ callSessions'[bridge.sessionId].terminalReason = CarrierReason(e)
                    /\ Truthy(callSessions'[bridge.sessionId].endedAt)
            /\ bridge'.twilioStopped
            /\ realtimeSocket'.readyState \in {WS_CLOSING, WS_CLOSED}
            /\ realtimeSocket.readyState = WS_OPEN =>
                 realtimeSocket'.closing = "close" /\ realtimeSocket'.closeCode = 1000]_vars
  /\ [][\A code \in CloseCodes, reason \in CloseReasons :
          (bridge.twilioStopped /\ RealtimeSocketClose(code, reason)) =>
            callSessions' = callSessions]_vars

\* the carrier stopped with a reason of its own, the session is completed
\* with it, and the model socket has since closed with a code other than 1000
C32_Witness ==
  /\ bridge.started /\ bridge.twilioStopped
  /\ callSessions[bridge.sessionId].status = "completed"
  /\ callSessions[bridge.sessionId].terminalReason = "busy"
  /\ realtimeSocket.readyState = WS_CLOSED
  /\ realtimeSocket.closing = "close"
  /\ realtimeSocket.closedWith = 1006

(***************************************************************************)
(* The truncation point                                                    *)
(***************************************************************************)
TruncateType == "conversation.item.truncate"

\* C33: a conversation.item.truncate is written only while an assistant item
\* is active with tracked audio above zero, names that item, and carries
\* audio_end_ms = floor(min(sent ms, ms elapsed since the item's audio
\* started)): a natural number that is at most the milliseconds of audio
\* tracked for the item (its decoded bytes / 8; the model counts bytes).
C33_TruncateWithinSentAudio ==
  [][~Tick =>
       \A i \in DOMAIN wire' :
         wire'[i].type = TruncateType =>
           /\ bridge.assistantOutputActive
           /\ bridge.activeAssistantItemId # Null
           /\ bridge.activeAssistantAudioMsSent > 0
           /\ bridge.activeAssistantAudioStartedAtMs > 0
           /\ wire'[i].item_id = bridge.activeAssistantItemId
           /\ wire'[i].content_index = bridge.activeAssistantContentIndex
           /\ wire'[i].audio_end_ms =
                Min(bridge.activeAssistantAudioMsSent,
                    (nowMs - bridge.activeAssistantAudioStartedAtMs) * 8) \div 8
           /\ wire'[i].audio_end_ms \in Nat
           /\ wire'[i].audio_end_ms * 8 <= bridge.activeAssistantAudioMsSent]_vars

\* a truncate was written at the time elapsed, one clock step, which is less
\* than the audio sent
C33_Witness ==
  \E i \in DOMAIN wire :
    /\ wire[i].type = TruncateType
    /\ wire[i].item_id = "i1"
    /\ wire[i].audio_end_ms = ClockStepMs

(***************************************************************************)
(* Errors that end the call                                                *)
(***************************************************************************)
FatalErrors ==
  {e \in RealtimeLifeEvents : e.parses /\ e.type = "error" /\ ~AnswersInterrupt(e)}
MessageOf(e) ==
  IF e.errorMessage # Null THEN e.errorMessage
  ELSE "OpenAI Realtime returned an unknown error event."

\* C34: an error event of the model that answers no interruption control
\* event marks a session that has not ended failed, with the error's message
\* (a fixed text when the error has none) as terminalReason, leaves an ended
\* session as it is, and starts the close of the carrier socket (code 1000
\* when it was open).
C34_FatalErrorFailsSession ==
  [][\A e \in FatalErrors :
       RealtimeMessage(e) =>
         /\ IF Truthy(callSessions[bridge.sessionId].endedAt)
            THEN callSessions' = callSessions
            ELSE /\ callSessions'[bridge.sessionId].status = "failed"
                 /\ callSessions'[bridge.sessionId].terminalReason = MessageOf(e)
                 /\ Truthy(callSessions'[bridge.sessionId].endedAt)
         /\ twilioSocket'.readyState \in {WS_CLOSING, WS_CLOSED}
         /\ twilioSocket.readyState = WS_OPEN =>
              twilioSocket'.closing = "close" /\ twilioSocket'.closeCode = 1000]_vars

\* the session failed with the message of a model error and the carrier
\* socket is being closed with 1000
C34_Witness ==
  /\ bridge.started
  /\ callSessions[bridge.sessionId].status = "failed"
  /\ callSessions[bridge.sessionId].terminalReason = "Invalid value"
  /\ twilioSocket.readyState = WS_CLOSING
  /\ twilioSocket.closing = "close" /\ twilioSocket.closeCode = 1000
  /\ realtimeSocket.readyState = WS_OPEN

(***************************************************************************)
(* Audio in both directions                                                *)
(***************************************************************************)
AppendFrame(audio) ==
  [Frame("realtime", "input_audio_buffer.append") EXCEPT !.audio = audio]

\* C35: a carrier media frame is answered by exactly one
\* input_audio_buffer.append carrying its payload when it has a payload and
\* the model socket is open, and by nothing otherwise; no other step writes an
\* append, so each frame is forwarded at most once and in arrival order.  A
\* media frame is written to the carrier only for a model delta, after a start
\* message has given the stream id, and on that stream.
C35_AudioForwarding ==
  /\ [][\A e \in MediaFrames :
          TwilioMessage(e) =>
            wire' = IF e.payload # NoAudio /\ realtimeSocket.readyState = WS_OPEN
                    THEN <<AppendFrame(e.payload)>> ELSE <<>>]_vars
  /\ [][(wire' # wire /\ \E i \in DOMAIN wire' : wire'[i].type = "input_audio_buffer.append") =>
          \E e \in MediaFrames : TwilioMessage(e) /\ wire' = <<AppendFrame(e.payload)>>]_vars
  /\ [][\A i \in DOMAIN wire' :
          (wire' # wire /\ wire'[i].to = "twilio" /\ wire'[i].type = "media") =>
            /\ bridge.twilioStartHandled
            /\ bridge.twilioStreamSid # Null
            /\ wire'[i].streamSid = bridge.twilioStreamSid
            /\ \E d \in MediaDeltas : RealtimeMessage(d) /\ wire'[i].audio = d.delta]_vars

\* a carrier frame has just been forwarded to the model on a bridge whose
\* carrier stream is known
C35_Witness ==
  /\ wire = <<AppendFrame(ShortFrame)>>
  /\ bridge.twilioStreamSid = "MZ1"
  /\ realtimeSocket.readyState = WS_OPEN

(***************************************************************************)
(* The progress of a call's status                                         *)
(***************************************************************************)
StatusRank(status) ==
  CASE status = "queued" -> 0
    [] status = "ringing" -> 1
    [] status = "in-progress" -> 2
    [] OTHER -> 3

\* C38: no step moves a session's status backwards in the order
\* queued < ringing < in-progress < {completed, failed}.
C38_StatusNeverRegresses ==
  [][\A s \in Sessions :
       StatusRank(callSessions'[s].status) >= StatusRank(callSessions[s].status)]_vars

(***************************************************************************)
(* The transcript as the viewer rebuilds it                                *)
(***************************************************************************)
\* viewer v was sent every event of session s from the first one on and its
\* widget has handled them all
ReplayedAll(v, s) ==
  /\ sockets[v].accepted /\ sockets[v].sessionId = s
  /\ sockets[v].sent = Appended(s)
  /\ sockets[v].delivered = Len(sockets[v].sent)

TextOf(item) == [speaker |-> item.speaker, text |-> item.text, isFinal |-> item.isFinal]

\* C39: a widget that started empty and has handled, in order, every event of
\* a session's log from seq 1 has exactly one line for each transcript item
\* of the store, with the item's speaker, text and isFinal, and no other line.
C39_ViewerRebuildsTranscript ==
  \A s \in Sessions :
    ReplayedAll("v1", s) =>
      /\ Len(widgetState.transcript) = Cardinality(DOMAIN callSessions[s].transcriptItems)
      /\ \A i \in DOMAIN callSessions[s].transcriptItems :
           \E k \in DOMAIN widgetState.transcript :
             /\ widgetState.transcript[k].itemId = i
             /\ TextOf(widgetState.transcript[k]) = TextOf(callSessions[s].transcriptItems[i])
      /\ widgetState.lastSeq <= callSessions[s].seq

\* the viewer connected after the first event, was sent the rest live, and
\* its widget has rebuilt an item that was finalised and then extended
C39_Witness ==
  \E s \in Sessions :
    /\ ReplayedAll("v1", s)
    /\ \E k \in DOMAIN widgetState.transcript :
         /\ widgetState.transcript[k].text = <<"F", "a">>
         /\ ~widgetState.transcript[k].isFinal
    /\ Len(sockets["v1"].catchUp) = 1


(***************************************************************************)
(* Overlapping summary calls                                               *)
(***************************************************************************)
\* the events of session s appended up to seq
EventsUpTo(s, seq) == SelectSeq(Appended(s), LAMBDA e : e.seq <= seq)
TranscriptTypes == {"transcript.delta", "transcript.final"}

\* the text of item itemId once the events are applied in turn
RECURSIVE TextAfter(_, _)
TextAfter(events, itemId) ==
  IF events = <<>> THEN <<>>
  ELSE LET e == events[Len(events)]
           before == TextAfter(SubSeq(events, 1, Len(events) - 1), itemId)
       IN IF e.type \in TranscriptTypes /\ e.itemId = itemId
          THEN IF e.type = "transcript.final" THEN e.fullText
               ELSE before \o e.textDelta
          ELSE before

\* the speakers and collapsed texts of the items of session s that were not
\* blank when the session's seq was seq, and the number of items it had then
LinesAt(s, seq) ==
  LET events == EventsUpTo(s, seq)
      spoken == {n \in DOMAIN events : events[n].type \in TranscriptTypes}
      lines == {[speaker |-> events[n].speaker,
                 text |-> collapseWhitespace(TextAfter(events, events[n].itemId))] :
                n \in spoken}
  IN {line \in lines : Len(line.text) > 0}
ItemsAt(s, seq) ==
  LET events == EventsUpTo(s, seq)
  IN Cardinality({events[n].itemId :
                    n \in {m \in DOMAIN events : events[m].type \in TranscriptTypes}})
LinesOf(result) == {result.basis[k] : k \in DOMAIN result.basis}

\* C40: with overlapping summary calls of a session and events appended in
\* between, a call returns the cached result only when the cache entry's
\* lastSeq is the session's seq at the time of that call, and every cache
\* entry was computed from the transcript as it was at the seq the entry is
\* stored under; the seq never decreases, so an entry stored under a seq the
\* session has left behind, even when it overwrote a newer entry, is never
\* returned.
C40_CacheServedOnlyAtItsSeq ==
  /\ [][ \A s \in SessionIds :
           (getTwilioCallSummaryOutput(s) /\ LatestCall'.hit) =>
             /\ s \in DOMAIN summaryCache
             /\ summaryCache[s].lastSeq = callSessions[s].seq
             /\ LatestCall'.result = summaryCache[s].result ]_vars
  /\ [][ \A s \in CreatedIds : callSessions'[s].seq >= callSessions[s].seq ]_vars
  /\ [] \A s \in DOMAIN summaryCache :
          /\ summaryCache[s].lastSeq <= callSessions[s].seq
          /\ LinesOf(summaryCache[s].result) = LinesAt(s, summaryCache[s].lastSeq)
          /\ summaryCache[s].result.transcriptItems = ItemsAt(s, summaryCache[s].lastSeq)

\* the second call of a session returned at a seq, a call that had begun at
\* an earlier seq then stored its result over the second call's, and the third
\* call, made at the second call's seq, was not served from the cache and
\* sent a request of its own
C40_Witness ==
  \E s \in CreatedIds :
    /\ Len(summaryCalls) = 3
    /\ summaryCalls[2].sessionId = s /\ summaryCalls[2].state = "returned"
    /\ summaryCalls[3].sessionId = s /\ ~summaryCalls[3].hit
    /\ summaryCalls[3].lastSeq = summaryCalls[2].lastSeq
    /\ callSessions[s].seq = summaryCalls[2].lastSeq
    /\ s \in DOMAIN summaryCache
    /\ summaryCache[s].lastSeq < summaryCalls[2].lastSeq
    /\ summaryCalls[3].state = "awaiting" /\ summaryCalls[3].requested

=============================================================================
